---------------------------- MODULE Spec2Model ----------------------------
(***************************************************************************)
(* Model of the closeguard rule evaluation engine: rule handlers, the      *)
(* orchestrator loops (modular RuleEngineService and legacy RuleEngine),   *)
(* the severity classifier of Flag and the forensic scoring service.       *)
(*                                                                         *)
(* Representation.                                                         *)
(*  - A Python str that the code inspects character by character (flag     *)
(*    messages, captured numeric groups) is a sequence of one-character    *)
(*    strings.                                                             *)
(*  - A document text is a sequence of items [label, val]: `label` is the  *)
(*    part of a line a rule pattern matches on (already lower/upper case   *)
(*    as written in the document), `val` is the text a capture group       *)
(*    returns.  A regular expression is identified by the label it         *)
(*    matches, whether it has a capture group, and whether it compiles.    *)
(*  - A number (Python float) is an integer count of hundredths, which is  *)
(*    exact for the two-decimal currency amounts of the documents; None    *)
(*    is the empty sequence and a present number n is <<n>>.               *)
(***************************************************************************)
EXTENDS Integers, Sequences, FiniteSets, TLC

(***************************************************************************)
(* Bounds of the model.                                                    *)
(***************************************************************************)
\* longest rule list of a configuration file
MaxRules == 2
\* longest text (in items) handed to a single rule handler
MaxTextLen == 2
\* longest flag list handed to the scoring service
MaxFlags == 5
\* most fragments a flag message is composed of
MaxFrags == 2
\* items of context kept on each side of a match by extract_snippet
SnippetItems == 1

None == << >>
Some(x) == << x >>
Val(o) == o[1]

\* a number of the code or the configuration, in the hundredths of the model
Amount(x) == 100 * x

Abs(x) == IF x < 0 THEN 0 - x ELSE x
Max(a, b) == IF a >= b THEN a ELSE b
Min(a, b) == IF a <= b THEN a ELSE b

RECURSIVE Concat(_)
\* concatenation of a sequence of sequences
Concat(ss) == IF ss = << >> THEN << >> ELSE Head(ss) \o Concat(Tail(ss))

\* all sequences over S of length at most n
SeqUpTo(S, n) == UNION { [1..k -> S] : k \in 0..n }

(***************************************************************************)
(* Strings as character sequences.                                         *)
(***************************************************************************)
Digits == << "0", "1", "2", "3", "4", "5", "6", "7", "8", "9" >>
IsDigit(c) == \E i \in 1..10 : Digits[i] = c
DigitVal(c) == (CHOOSE i \in 1..10 : Digits[i] = c) - 1

UpperChars == << "A", "C", "D", "E", "F", "G", "I", "L", "N", "O", "R", "S", "T", "U", "V", "W", "X",
                 "B", "K", "M", "P" >>
LowerChars == << "a", "c", "d", "e", "f", "g", "i", "l", "n", "o", "r", "s", "t", "u", "v", "w", "x",
                 "b", "k", "m", "p" >>

\* str.lower() on one character (the letters the messages of the model use)
LowerChar(c) ==
    IF \E i \in 1..Len(UpperChars) : UpperChars[i] = c
    THEN LowerChars[CHOOSE i \in 1..Len(UpperChars) : UpperChars[i] = c]
    ELSE c

\* str.lower()
Lower(s) == [i \in 1..Len(s) |-> LowerChar(s[i])]

\* str.upper() on one character
UpperChar(c) ==
    IF \E i \in 1..Len(LowerChars) : LowerChars[i] = c
    THEN UpperChars[CHOOSE i \in 1..Len(LowerChars) : LowerChars[i] = c]
    ELSE c

\* str.upper()
Upper(s) == [i \in 1..Len(s) |-> UpperChar(s[i])]

RECURSIVE Strip(_)
\* str.strip() (the only whitespace of the model is the blank)
Strip(s) ==
    IF s = << >> THEN s
    ELSE IF Head(s) = " " THEN Strip(Tail(s))
    ELSE IF s[Len(s)] = " " THEN Strip(SubSeq(s, 1, Len(s) - 1))
    ELSE s

\* [A-Z] and \w of the regular expressions
IsUpperLetter(c) == \E i \in 1..Len(UpperChars) : UpperChars[i] = c
IsWordChar(c) ==
    \/ IsUpperLetter(c)
    \/ \E i \in 1..Len(LowerChars) : LowerChars[i] = c
    \/ IsDigit(c)
    \/ c = "_"

\* the maximal runs of characters satisfying Test, as the set of their
\* substrings
RunsOf(s, Test(_)) ==
    { SubSeq(s, ab[1], ab[2]) :
        ab \in { xy \in (1..Len(s)) \X (1..Len(s)) :
                    /\ xy[1] <= xy[2]
                    /\ \A k \in xy[1]..xy[2] : Test(s[k])
                    /\ xy[1] = 1 \/ ~Test(s[xy[1] - 1])
                    /\ xy[2] = Len(s) \/ ~Test(s[xy[2] + 1]) } }

\* str.split(): the words between blanks
SplitWords(s) == RunsOf(s, LAMBDA c : c # " ")

\* Python's `kw in s` on strings: kw occurs as a contiguous substring of s
Contains(s, kw) ==
    \E i \in 0..(Len(s) - Len(kw)) :
        \A j \in 1..Len(kw) : s[i + j] = kw[j]

\* str.replace(',', '')
StripCommas(s) == SelectSeq(s, LAMBDA c : c # ",")

\* whether float(t) succeeds, for t over digits and '.': digits with at most
\* one point and at least one digit (float('') and float('1.2.3') raise
\* ValueError)
IsFloatLiteral(t) ==
    /\ \A i \in 1..Len(t) : IsDigit(t[i]) \/ t[i] = "."
    /\ Cardinality({i \in 1..Len(t) : t[i] = "."}) <= 1
    /\ \E i \in 1..Len(t) : IsDigit(t[i])

RECURSIVE DigitsValue(_)
\* the integer a digit string denotes ('' denotes 0)
DigitsValue(t) ==
    IF t = << >> THEN 0
    ELSE 10 * DigitsValue(SubSeq(t, 1, Len(t) - 1)) + DigitVal(t[Len(t)])

\* float(t) in hundredths, for a literal with at most two decimals
FloatValue(t) ==
    LET dots == {i \in 1..Len(t) : t[i] = "."}
        p    == IF dots = {} THEN Len(t) + 1 ELSE CHOOSE i \in dots : TRUE
        ip   == SubSeq(t, 1, p - 1)
        fp   == SubSeq(t, p + 1, Len(t))
        frac == IF Len(fp) = 0 THEN 0
                ELSE IF Len(fp) = 1 THEN 10 * DigitVal(fp[1])
                ELSE 10 * DigitVal(fp[1]) + DigitVal(fp[2])
    IN  100 * DigitsValue(ip) + frac

RECURSIVE NatStr(_)
\* str(n) for a natural number n
NatStr(n) == IF n < 10 THEN << Digits[n + 1] >>
             ELSE NatStr(n \div 10) \o << Digits[(n % 10) + 1] >>

\* str(x) for a non-negative float x given in hundredths: '5000.0', '5000.01'
FloatStr(h) ==
    LET ip == h \div 100
        f  == h % 100
    IN  NatStr(ip) \o << "." >> \o
        (IF f % 10 = 0 THEN << Digits[(f \div 10) + 1] >>
         ELSE << Digits[(f \div 10) + 1], Digits[(f % 10) + 1] >>)


(***************************************************************************)
(* Regular expressions and document text.                                  *)
(***************************************************************************)
\* re.compile fails (re.error) on this pattern
BadPattern == "("

\* a configuration key that is absent (or None)
Missing == "<missing>"

\* `not s` for an optional string: absent, None or empty
NotStr(s) == s = Missing \/ s = ""

\* the patterns rules are configured with: "" is the empty pattern,
\* "total:(#)" matches a total line and captures its amount, "total:#"
\* matches the same lines and has no capture group
Patterns == { "", BadPattern, "total:(#)", "total:#", "loan:(#)", "price:(#)",
              "costs:(#)", "title:(#)", "escrow:(#)", "lender:(#)", "broker_na:#",
              "seller:(#)", "seller:#", "insurer:(#)" }

\* whether re.compile accepts the pattern
ValidPattern(p) == p # BadPattern

\* the (case-folded) label of the lines a pattern matches
PatLabel(p) ==
    CASE p = "total:(#)" -> "total"
      [] p = "total:#"   -> "total"
      [] p = "loan:(#)"  -> "loan"
      [] p = "price:(#)" -> "price"
      [] p = "costs:(#)" -> "costs"
      [] p = "title:(#)" -> "title"
      [] p = "escrow:(#)" -> "escrow"
      [] p = "lender:(#)" -> "lender"
      [] p = "broker_na:#" -> "broker_na"
      [] p = "seller:(#)" -> "seller"
      [] p = "seller:#"   -> "seller"
      [] p = "insurer:(#)" -> "insurer"
      [] OTHER           -> ""

\* whether match.group(1) exists
HasGroup(p) ==
    p \in { "total:(#)", "loan:(#)", "price:(#)", "costs:(#)", "title:(#)",
            "escrow:(#)", "lender:(#)", "seller:(#)", "insurer:(#)" }

\* re.IGNORECASE: the label of a document line with case folded
FoldLabel(l) ==
    CASE l = "TOTAL" -> "total"
      [] l = "Total" -> "total"
      [] l = "LOAN"  -> "loan"
      [] OTHER       -> l

\* re.finditer(p, text, re.IGNORECASE) for a valid p: the positions of the
\* matches, in text order.  The empty pattern matches the empty string at
\* every position, from 0 (the start of the text) on.
FindIter(p, text) ==
    IF p = "" THEN [i \in 1..(Len(text) + 1) |-> i - 1]
    ELSE SelectSeq([i \in 1..Len(text) |-> i],
                   LAMBDA i : FoldLabel(text[i].label) = PatLabel(p))

\* re.search(p, text, re.IGNORECASE) for a valid p: None, or the position of
\* the first match
Search(p, text) ==
    IF FindIter(p, text) = << >> THEN None ELSE Some(Head(FindIter(p, text)))

(***************************************************************************)
(* models/flag.py                                                          *)
(***************************************************************************)
HIGH   == "high"
MEDIUM == "medium"
LOW    == "low"
FlagSeverity == { HIGH, MEDIUM, LOW }

\* the emoji markers U+1F6A8 and U+26A0 U+FE0F, each one element of a message
HighMarker   == "<U+1F6A8>"
MediumMarker == "<U+26A0,U+FE0F>"

HighKeywords ==
    { << HighMarker >>,
      << "c", "r", "i", "t", "i", "c", "a", "l" >>,
      << "e", "r", "r", "o", "r" >>,
      << "f", "r", "a", "u", "d" >> }

MediumKeywords ==
    { << MediumMarker >>,
      << "w", "a", "r", "n", "i", "n", "g" >>,
      << "d", "a", "n", "g", "e", "r", "o", "u", "s" >>,
      << "e", "x", "c", "e", "s", "s", "i", "v", "e" >> }

\* _determine_severity altered: the tiers are tested in the wrong order
determine_severity_MediumFirst(message) ==
    LET message_lower == Lower(message)
    IN  IF \E keyword \in MediumKeywords : Contains(message_lower, keyword)
        THEN MEDIUM
        ELSE IF \E keyword \in HighKeywords : Contains(message_lower, keyword)
        THEN HIGH
        ELSE LOW

\* Flag._determine_severity
determine_severity(message) ==
    LET message_lower == Lower(message)
    IN  IF \E keyword \in HighKeywords : Contains(message_lower, keyword)
        THEN HIGH
        ELSE IF \E keyword \in MediumKeywords : Contains(message_lower, keyword)
        THEN MEDIUM
        ELSE LOW

\* Flag.__post_init__ altered: a severity that was not passed stays unset
\* (written "none", a value that is no member of FlagSeverity)
post_init_severity_Unset(severity, message) ==
    IF severity = None THEN "none" ELSE Val(severity)

\* Flag.__post_init__: `if self.severity is None:
\* self.severity = self._determine_severity()`; severity is None or Some(s)
post_init_severity(severity, message) ==
    IF severity = None THEN determine_severity(message) ELSE Val(severity)

\* Flag(rule=..., message=..., snippet=...): severity is not passed by any
\* handler, so __post_init__ derives it from the message
Flag(rule, message, snippet) ==
    [ rule |-> rule, message |-> message, snippet |-> snippet,
      severity |-> post_init_severity(None, message) ]

(***************************************************************************)
(* models/rule.py.  A rule is the record of its configuration entry:       *)
(*   name, type, message, enabled, pattern, threshold, operator,           *)
(*   numerator_pattern, denominator_pattern, comparison_type,              *)
(*   tolerance_percent.                                                    *)
(* A missing pattern or operator is Missing, a missing threshold or         *)
(* tolerance is None.  A message template is a sequence of characters and  *)
(* placeholder elements such as "{value}".                                 *)
(***************************************************************************)
NUMERIC_THRESHOLD       == "numeric_threshold"
CALCULATED_PERCENTAGE   == "calculated_percentage"
REGEX_PRESENCE          == "regex_presence"
REGEX_ABSENCE           == "regex_absence"
REGEX_AMOUNT            == "regex_amount"
COMPOUND_RULE           == "compound_rule"
CROSS_REFERENCE_PATTERN == "cross_reference_pattern"
CONTEXT_COMPARISON      == "context_comparison"

\* the keys of type_mapping in Rule.from_dict
RuleType ==
    { NUMERIC_THRESHOLD, CALCULATED_PERCENTAGE, REGEX_PRESENCE, REGEX_ABSENCE,
      REGEX_AMOUNT, COMPOUND_RULE, CROSS_REFERENCE_PATTERN, CONTEXT_COMPARISON }

\* Rule.from_dict raises ValueError for a type that is not in type_mapping,
\* and AttributeError (data.get) for an entry that is not a mapping
from_dict_ok(rule_data) == rule_data.mapping /\ rule_data.type \in RuleType

(***************************************************************************)
(* rules/base_rule.py                                                      *)
(***************************************************************************)
\* BaseRuleHandler.extract_snippet: the text from context_chars before the
\* match to context_chars after it, counted here in items
extract_snippet(text, start_pos, end_pos) ==
    SubSeq(text, Max(1, start_pos - SnippetItems),
                 Min(Len(text), end_pos + SnippetItems))

\* one step of the loop of format_message: every occurrence of the
\* placeholder {key} replaced by the string of the value
ReplaceKey(message, key, str) ==
    Concat([i \in 1..Len(message) |->
               IF message[i] = key THEN str ELSE << message[i] >>])

RECURSIVE format_message(_, _)
\* BaseRuleHandler.format_message; kwargs is a sequence of <<placeholder,
\* string of the value>> pairs ('${key}' is '$' followed by '{key}', so the
\* first replace already renders it)
format_message(message, kwargs) ==
    IF kwargs = << >> THEN message
    ELSE format_message(ReplaceKey(message, Head(kwargs)[1], Head(kwargs)[2]),
                        Tail(kwargs))

\* what a handler call produces: the exception that escaped it ("none" when
\* it returned) and the flags it returned
Returned(flags) == [ exc |-> "none", flags |-> flags ]
Raised(e)       == [ exc |-> e, flags |-> << >> ]

(***************************************************************************)
(* rules/numeric_rules.py                                                  *)
(***************************************************************************)
\* _evaluate_condition altered: '>' and '<' admit equality
evaluate_condition_NotStrict(value, threshold, operator) ==
    CASE operator = ">"  -> value >= threshold
      [] operator = "<"  -> value <= threshold
      [] operator = ">=" -> value >= threshold
      [] operator = "<=" -> value <= threshold
      [] operator = "==" -> value = threshold
      [] OTHER           -> value >= threshold

\* NumericThresholdHandler._evaluate_condition
evaluate_condition(value, threshold, operator) ==
    CASE operator = ">"  -> value > threshold
      [] operator = "<"  -> value < threshold
      [] operator = ">=" -> value >= threshold
      [] operator = "<=" -> value <= threshold
      [] operator = "==" -> value = threshold
      [] OTHER           -> value > threshold

\* rule.operator or '>'
OperatorOrDefault(operator) == IF NotStr(operator) THEN ">" ELSE operator

\* the body of the loop of _check_numeric_threshold for the match at item k:
\* the flags it appends (IndexError and ValueError are caught and the match
\* is skipped)
numeric_threshold_match(rule, text, k) ==
    IF ~HasGroup(rule.pattern) THEN << >>
    ELSE LET value_str == StripCommas(text[k].val)
         IN  IF ~IsFloatLiteral(value_str) THEN << >>
             ELSE LET value == FloatValue(value_str)
                  IN  IF evaluate_condition(value, Val(rule.threshold),
                                            OperatorOrDefault(rule.operator))
                      THEN << Flag(rule.name,
                                   format_message(rule.message,
                                       << << "{value}", FloatStr(value) >>,
                                          << "{value_str}", value_str >> >>),
                                   extract_snippet(text, k, k)) >>
                      ELSE << >>

\* _check_numeric_threshold altered: a value that does not parse ends the
\* rule without a flag
check_numeric_threshold_Abort(rule, text) ==
    IF NotStr(rule.pattern) \/ rule.threshold = None THEN Returned(<< >>)
    ELSE IF ~ValidPattern(rule.pattern) THEN Raised("re.error")
    ELSE LET matches == FindIter(rule.pattern, text)
         IN  IF \E j \in 1..Len(matches) :
                    ~IsFloatLiteral(StripCommas(text[matches[j]].val))
             THEN Returned(<< >>)
             ELSE Returned(Concat([j \in 1..Len(matches) |->
                             numeric_threshold_match(rule, text, matches[j])]))

\* NumericThresholdHandler._check_numeric_threshold
check_numeric_threshold(rule, text) ==
    IF NotStr(rule.pattern) \/ rule.threshold = None THEN Returned(<< >>)
    ELSE IF ~ValidPattern(rule.pattern) THEN Raised("re.error")
    ELSE LET matches == FindIter(rule.pattern, text)
         IN  Returned(Concat([j \in 1..Len(matches) |->
                                 numeric_threshold_match(rule, text, matches[j])]))

\* (a / b) * 100 in hundredths of a per cent, for a >= 0 and b > 0 in the
\* same unit: the pair << floor, remainder >> of the long division, whose
\* exact value is floor + remainder / b
percentage_of(a, b) ==
    LET q1 == a \div b
        r1 == a % b
        q2 == (r1 * 100) \div b
        r2 == (r1 * 100) % b
        q3 == (r2 * 100) \div b
        r3 == (r2 * 100) % b
    IN  << q1 * 10000 + q2 * 100 + q3, r3 >>

\* an integer that orders such a pair against twice a number of hundredths
\* exactly as the exact percentage is ordered against that number
percentage_key(p) == 2 * p[1] + (IF p[2] > 0 THEN 1 ELSE 0)

\* round(percentage, 2), in hundredths (halves go to the even neighbour)
round_percentage(p, b) ==
    IF 2 * p[2] < b THEN p[1]
    ELSE IF 2 * p[2] > b THEN p[1] + 1
    ELSE IF p[1] % 2 = 0 THEN p[1] ELSE p[1] + 1

\* the zero test of _check_calculated_percentage altered: the test is missing
denominator_is_zero_Unchecked(denominator) == FALSE

\* `if denominator == 0` of _check_calculated_percentage
denominator_is_zero(denominator) == denominator = 0

\* re.search(pattern, text, re.IGNORECASE) of _check_calculated_percentage
first_match(pattern, text) == Search(pattern, text)

\* NumericThresholdHandler._check_calculated_percentage.  The percentage
\* (numerator / denominator) * 100 is compared with the threshold exactly,
\* through percentage_key.
check_calculated_percentage(rule, text) ==
    IF NotStr(rule.numerator_pattern) \/ NotStr(rule.denominator_pattern)
          \/ rule.threshold = None
    THEN Returned(<< >>)
    ELSE IF ~ValidPattern(rule.numerator_pattern) THEN Raised("re.error")
    ELSE LET numerator_match == first_match(rule.numerator_pattern, text)
         IN
         IF numerator_match = None THEN Returned(<< >>)
         ELSE IF ~HasGroup(rule.numerator_pattern) THEN Returned(<< >>)
         ELSE LET numerator_str == StripCommas(text[Val(numerator_match)].val)
         IN
         IF ~IsFloatLiteral(numerator_str) THEN Returned(<< >>)
         ELSE IF ~ValidPattern(rule.denominator_pattern) THEN Raised("re.error")
         ELSE LET denominator_match == first_match(rule.denominator_pattern, text)
         IN
         IF denominator_match = None THEN Returned(<< >>)
         ELSE IF ~HasGroup(rule.denominator_pattern) THEN Returned(<< >>)
         ELSE LET denominator_str == StripCommas(text[Val(denominator_match)].val)
         IN
         IF ~IsFloatLiteral(denominator_str) THEN Returned(<< >>)
         ELSE LET numerator   == FloatValue(numerator_str)
                  denominator == FloatValue(denominator_str)
         IN
         IF denominator_is_zero(denominator) THEN Returned(<< >>)
         ELSE IF denominator = 0 THEN Raised("ZeroDivisionError")
         ELSE IF evaluate_condition(
                     percentage_key(percentage_of(numerator, denominator)),
                     2 * Val(rule.threshold),
                     OperatorOrDefault(rule.operator))
         THEN Returned(<< Flag(rule.name,
                   format_message(rule.message,
                       << << "{percentage}",
                             FloatStr(round_percentage(
                                 percentage_of(numerator, denominator),
                                 denominator)) >>,
                          << "{numerator}", FloatStr(numerator) >>,
                          << "{denominator}", FloatStr(denominator) >> >>),
                   extract_snippet(text, Val(numerator_match),
                                   Val(numerator_match))) >>)
         ELSE Returned(<< >>)

\* NumericThresholdHandler.process_rule
NumericThresholdHandler_process_rule(rule, text, context) ==
    IF rule.type = NUMERIC_THRESHOLD THEN check_numeric_threshold(rule, text)
    ELSE IF rule.type = CALCULATED_PERCENTAGE
    THEN check_calculated_percentage(rule, text)
    ELSE Returned(<< >>)

(***************************************************************************)
(* rules/regex_rules.py                                                    *)
(***************************************************************************)
\* a snippet that is a fixed string of the code and not a part of the text
Sentinel(str) == << [ label |-> str, val |-> << >> ] >>

\* the snippet of a flag that has no match position
PatternNotFound == Sentinel("Pattern not found in document")

\* RegexPresenceHandler.process_rule
RegexPresenceHandler_process_rule(rule, text, context) ==
    IF NotStr(rule.pattern) THEN Returned(<< >>)
    ELSE IF ~ValidPattern(rule.pattern) THEN Raised("re.error")
    ELSE LET match == Search(rule.pattern, text)
         IN  IF match # None
             THEN Returned(<< Flag(rule.name, rule.message,
                                   extract_snippet(text, Val(match), Val(match))) >>)
             ELSE Returned(<< >>)

\* RegexAbsenceHandler.process_rule altered: the flag is produced when the
\* pattern is found
RegexAbsenceHandler_process_rule_Found(rule, text, context) ==
    RegexPresenceHandler_process_rule(rule, text, context)

\* RegexAbsenceHandler.process_rule
RegexAbsenceHandler_process_rule(rule, text, context) ==
    IF NotStr(rule.pattern) THEN Returned(<< >>)
    ELSE IF ~ValidPattern(rule.pattern) THEN Raised("re.error")
    ELSE IF Search(rule.pattern, text) = None
         THEN Returned(<< Flag(rule.name, rule.message, PatternNotFound) >>)
         ELSE Returned(<< >>)

\* RegexAmountHandler._evaluate_condition
RegexAmountHandler_evaluate_condition(value, threshold, operator) ==
    CASE operator = ">"  -> value > threshold
      [] operator = "<"  -> value < threshold
      [] operator = ">=" -> value >= threshold
      [] operator = "<=" -> value <= threshold
      [] operator = "==" -> value = threshold
      [] OTHER           -> value > threshold

\* the body of the loop of RegexAmountHandler.process_rule for the match at
\* item k
regex_amount_match(rule, text, k) ==
    IF ~HasGroup(rule.pattern) THEN << >>
    ELSE LET value_str == StripCommas(text[k].val)
         IN  IF ~IsFloatLiteral(value_str) THEN << >>
             ELSE LET value == FloatValue(value_str)
                  IN  IF RegexAmountHandler_evaluate_condition(value,
                             Val(rule.threshold), OperatorOrDefault(rule.operator))
                      THEN << Flag(rule.name,
                                   format_message(rule.message,
                                       << << "{value}", FloatStr(value) >> >>),
                                   extract_snippet(text, k, k)) >>
                      ELSE << >>

\* RegexAmountHandler.process_rule
RegexAmountHandler_process_rule(rule, text, context) ==
    IF NotStr(rule.pattern) \/ rule.threshold = None THEN Returned(<< >>)
    ELSE IF ~ValidPattern(rule.pattern) THEN Raised("re.error")
    ELSE LET matches == FindIter(rule.pattern, text)
         IN  Returned(Concat([j \in 1..Len(matches) |->
                                 regex_amount_match(rule, text, matches[j])]))

(***************************************************************************)
(* rules/context_rules.py.  A UserContext is None or Some(record) with the *)
(* fields the handlers read.                                               *)
(***************************************************************************)
\* the default of tolerance_percent, 5.0
DefaultTolerance == Amount(5)

\* the default pattern of _check_price_mismatch
DefaultPricePattern == "price:(#)"
\* the default pattern of _check_loan_amount_mismatch
DefaultLoanPattern == "loan:(#)"
\* the fixed patterns of the broken-promise checks
ClosingCostsPattern == "costs:(#)"
TitleFeesPattern    == "title:(#)"
EscrowFeesPattern   == "escrow:(#)"

\* rule.config.get(key, default)
ConfigGet(value, default) == IF value = Missing THEN default ELSE value

\* the guard on the expected value altered: only a missing value stops the
\* check
expected_missing_NoneOnly(expected) == expected = None

\* `if not context.expected_purchase_price: return []`, and the legacy
\* `if expected_price:`: a missing value and 0 are both false
expected_missing(expected) == expected = None \/ Val(expected) = 0

\* abs(document - expected) / expected * 100 > tolerance, for expected > 0
\* (an expected amount is a price the user entered), with all three in
\* hundredths
diff_exceeds(document, expected, tolerance) ==
    percentage_key(percentage_of(Abs(document - expected), expected))
        > 2 * tolerance

\* the common body of _check_price_mismatch and _check_loan_amount_mismatch:
\* `expected` is the context field, `pattern` the configured or default
\* pattern, `keys` the placeholder names of the message
check_mismatch(rule, text, expected, pattern, keys) ==
    IF expected_missing(expected) THEN Returned(<< >>)
    ELSE IF ~ValidPattern(pattern) THEN Raised("re.error")
    ELSE LET match == Search(pattern, text)
             tolerance_percent ==
                 IF rule.tolerance_percent = None THEN DefaultTolerance
                 ELSE Val(rule.tolerance_percent)
         IN
         IF match = None THEN Returned(<< >>)
         ELSE IF ~HasGroup(pattern) THEN Returned(<< >>)
         ELSE LET document_str == StripCommas(text[Val(match)].val)
         IN
         IF ~IsFloatLiteral(document_str) THEN Returned(<< >>)
         ELSE IF Val(expected) = 0 THEN Raised("ZeroDivisionError")
         ELSE LET document == FloatValue(document_str)
         IN
         IF diff_exceeds(document, Val(expected), tolerance_percent)
         THEN Returned(<< Flag(rule.name,
                   format_message(rule.message,
                       << << keys[1], FloatStr(document) >>,
                          << keys[2], FloatStr(Val(expected)) >>,
                          << "{difference}",
                             FloatStr(Abs(document - Val(expected))) >> >>),
                   extract_snippet(text, Val(match), Val(match))) >>)
         ELSE Returned(<< >>)

\* ContextComparisonHandler._check_price_mismatch
check_price_mismatch(rule, text, context) ==
    check_mismatch(rule, text, context.expected_purchase_price,
                   ConfigGet(rule.pattern, DefaultPricePattern),
                   << "{document_price}", "{expected_price}" >>)

\* ContextComparisonHandler._check_loan_amount_mismatch
check_loan_amount_mismatch(rule, text, context) ==
    check_mismatch(rule, text, context.expected_loan_amount,
                   ConfigGet(rule.pattern, DefaultLoanPattern),
                   << "{document_amount}", "{expected_amount}" >>)

\* ContextComparisonHandler._check_zero_closing_costs_promise
check_zero_closing_costs_promise(rule, text) ==
    LET match == Search(ClosingCostsPattern, text)
    IN  IF match = None THEN Returned(<< >>)
        ELSE LET amount_str == StripCommas(text[Val(match)].val)
             IN  IF ~IsFloatLiteral(amount_str) THEN Returned(<< >>)
                 ELSE IF FloatValue(amount_str) > Amount(100)
                 THEN Returned(<< Flag(rule.name,
                           format_message(rule.message,
                               << << "{amount}", FloatStr(FloatValue(amount_str)) >> >>),
                           extract_snippet(text, Val(match), Val(match))) >>)
                 ELSE Returned(<< >>)

\* ContextComparisonHandler._check_title_fees_promise and
\* _check_escrow_fees_promise: a flag when the fixed pattern is found
check_fees_promise(rule, text, pattern) ==
    LET match == Search(pattern, text)
    IN  IF match # None
        THEN Returned(<< Flag(rule.name, rule.message,
                              extract_snippet(text, Val(match), Val(match))) >>)
        ELSE Returned(<< >>)

\* ContextComparisonHandler._check_broken_promise
check_broken_promise(rule, text, context) ==
    LET promise_type == ConfigGet(rule.promise_type, "")
    IN  IF promise_type = "zero_closing_costs" /\ context.promised_zero_closing_costs
        THEN check_zero_closing_costs_promise(rule, text)
        ELSE IF promise_type = "title_fees"
                  /\ context.builder_promised_to_cover_title_fees
        THEN check_fees_promise(rule, text, TitleFeesPattern)
        ELSE IF promise_type = "escrow_fees"
                  /\ context.builder_promised_to_cover_escrow_fees
        THEN check_fees_promise(rule, text, EscrowFeesPattern)
        ELSE Returned(<< >>)

\* ContextComparisonHandler._check_unexpected_charge
check_unexpected_charge(rule, text, context) ==
    LET pattern == ConfigGet(rule.pattern, "")
    IN  IF pattern = "" THEN Returned(<< >>)
        ELSE IF ~ValidPattern(pattern) THEN Raised("re.error")
        ELSE LET match == Search(pattern, text)
             IN  IF match # None
                 THEN Returned(<< Flag(rule.name, rule.message,
                           extract_snippet(text, Val(match), Val(match))) >>)
                 ELSE Returned(<< >>)

\* ContextComparisonHandler.process_rule
ContextComparisonHandler_process_rule(rule, text, context) ==
    IF context = None THEN Returned(<< >>)
    ELSE LET comparison_type == ConfigGet(rule.comparison_type, "")
         IN  CASE comparison_type = "price_mismatch" ->
                      check_price_mismatch(rule, text, Val(context))
               [] comparison_type = "loan_amount_mismatch" ->
                      check_loan_amount_mismatch(rule, text, Val(context))
               [] comparison_type = "broken_promise" ->
                      check_broken_promise(rule, text, Val(context))
               [] comparison_type = "unexpected_charge" ->
                      check_unexpected_charge(rule, text, Val(context))
               [] OTHER -> Returned(<< >>)

(***************************************************************************)
(* rules/compound_rules.py.  A sub-condition is the record of its entry:   *)
(* type, pattern, threshold, operator.  Its evaluation is the exception    *)
(* that escaped it ("none" when it returned), the boolean and the match    *)
(* position (None when there is none).                                     *)
(***************************************************************************)
\* a sub-condition entry with every key absent
BaseCondition ==
    [ type |-> Missing, pattern |-> Missing, threshold |-> None,
      operator |-> Missing ]

CondResult(result, info) == [ exc |-> "none", result |-> result, info |-> info ]
CondRaised(e) == [ exc |-> e, result |-> FALSE, info |-> None ]

\* CompoundRuleHandler._check_regex_presence
compound_check_regex_presence(condition, text) ==
    LET pattern == ConfigGet(condition.pattern, "")
    IN  IF ~ValidPattern(pattern) THEN CondRaised("re.error")
        ELSE LET match == Search(pattern, text)
             IN  IF match # None THEN CondResult(TRUE, match)
                 ELSE CondResult(FALSE, None)

\* CompoundRuleHandler._check_regex_absence
compound_check_regex_absence(condition, text) ==
    LET pattern == ConfigGet(condition.pattern, "")
    IN  IF ~ValidPattern(pattern) THEN CondRaised("re.error")
        ELSE CondResult(Search(pattern, text) = None, None)

\* CompoundRuleHandler._evaluate_numeric_condition
evaluate_numeric_condition(value, threshold, operator) ==
    CASE operator = ">"  -> value > threshold
      [] operator = "<"  -> value < threshold
      [] operator = ">=" -> value >= threshold
      [] operator = "<=" -> value <= threshold
      [] operator = "==" -> value = threshold
      [] OTHER           -> value > threshold

\* `return False, None` of _check_numeric_threshold when re.search found
\* nothing
unmatched_numeric == CondResult(FALSE, None)

\* CompoundRuleHandler._check_numeric_threshold
compound_check_numeric_threshold(condition, text) ==
    LET pattern   == ConfigGet(condition.pattern, "")
        threshold == IF condition.threshold = None THEN 0
                     ELSE Val(condition.threshold)
        operator  == ConfigGet(condition.operator, ">")
    IN  IF ~ValidPattern(pattern) THEN CondRaised("re.error")
        ELSE LET match == Search(pattern, text)
        IN
        IF match = None THEN unmatched_numeric
        ELSE IF ~HasGroup(pattern) THEN CondResult(FALSE, None)
        ELSE LET value_str == StripCommas(text[Val(match)].val)
        IN
        IF ~IsFloatLiteral(value_str) THEN CondResult(FALSE, None)
        ELSE IF evaluate_numeric_condition(FloatValue(value_str), threshold, operator)
        THEN CondResult(TRUE, match)
        ELSE CondResult(FALSE, None)

\* CompoundRuleHandler._evaluate_condition
compound_evaluate_condition(condition, text) ==
    LET condition_type == ConfigGet(condition.type, "")
    IN  CASE condition_type = "regex_presence" ->
                 compound_check_regex_presence(condition, text)
          [] condition_type = "regex_absence" ->
                 compound_check_regex_absence(condition, text)
          [] condition_type = "numeric_threshold" ->
                 compound_check_numeric_threshold(condition, text)
          [] OTHER -> CondResult(FALSE, None)

\* logic.upper() == 'AND' for the spellings of the configurations
logic_is_and(logic) == logic \in { "AND", "and", "And" }

\* the snippet of a compound flag without a match position
MultipleConditionsMet == Sentinel("Multiple conditions met")

\* CompoundRuleHandler.process_rule.  The loop evaluates the conditions in
\* order; an exception of one of them ends the call.
CompoundRuleHandler_process_rule(rule, text, context) ==
    LET conditions == rule.conditions
        logic      == ConfigGet(rule.logic, "AND")
        evaluated  == [k \in 1..Len(conditions) |->
                          compound_evaluate_condition(conditions[k], text)]
        condition_results == [k \in 1..Len(conditions) |-> evaluated[k].result]
        located    == { k \in 1..Len(conditions) :
                           evaluated[k].result /\ evaluated[k].info # None }
        conditions_met ==
            IF logic_is_and(logic)
            THEN \A k \in 1..Len(conditions) : condition_results[k]
            ELSE \E k \in 1..Len(conditions) : condition_results[k]
    IN  IF conditions = << >> THEN Returned(<< >>)
        ELSE IF \E k \in 1..Len(conditions) : evaluated[k].exc # "none"
        THEN Raised(evaluated[CHOOSE k \in 1..Len(conditions) :
                        /\ evaluated[k].exc # "none"
                        /\ \A j \in 1..(k - 1) : evaluated[j].exc = "none"].exc)
        ELSE IF conditions_met
        THEN LET snippet ==
                    IF located = {} THEN MultipleConditionsMet
                    ELSE LET first == CHOOSE k \in located :
                                          \A j \in located : k <= j
                             at    == Val(evaluated[first].info)
                         IN  extract_snippet(text, at, at)
             IN  Returned(<< Flag(rule.name, rule.message, snippet) >>)
        ELSE Returned(<< >>)

\* CrossReferencePatternHandler.process_rule
CrossReferencePatternHandler_process_rule(rule, text, context) ==
    LET primary_pattern   == ConfigGet(rule.primary_pattern, "")
        reference_pattern == ConfigGet(rule.reference_pattern, "")
    IN  IF primary_pattern = "" \/ reference_pattern = "" THEN Returned(<< >>)
        ELSE IF ~ValidPattern(primary_pattern) THEN Raised("re.error")
        ELSE LET primary_match == Search(primary_pattern, text)
        IN
        IF primary_match = None THEN Returned(<< >>)
        ELSE IF ~ValidPattern(reference_pattern) THEN Raised("re.error")
        ELSE IF Search(reference_pattern, text) = None THEN Returned(<< >>)
        ELSE Returned(<< Flag(rule.name, rule.message,
                              extract_snippet(text, Val(primary_match),
                                              Val(primary_match))) >>)

(***************************************************************************)
(* services/rule_engine.py: handler lookup.                                *)
(***************************************************************************)
\* RuleEngineService.handlers, in the order of __init__
handlers ==
    << "NumericThresholdHandler", "RegexPresenceHandler", "RegexAbsenceHandler",
       "RegexAmountHandler", "CompoundRuleHandler",
       "CrossReferencePatternHandler", "ContextComparisonHandler" >>

\* <Handler>.can_handle
can_handle(handler, rule) ==
    CASE handler = "NumericThresholdHandler" ->
             rule.type \in { NUMERIC_THRESHOLD, CALCULATED_PERCENTAGE }
      [] handler = "RegexPresenceHandler"  -> rule.type = REGEX_PRESENCE
      [] handler = "RegexAbsenceHandler"   -> rule.type = REGEX_ABSENCE
      [] handler = "RegexAmountHandler"    -> rule.type = REGEX_AMOUNT
      [] handler = "CompoundRuleHandler"   -> rule.type = COMPOUND_RULE
      [] handler = "CrossReferencePatternHandler" ->
             rule.type = CROSS_REFERENCE_PATTERN
      [] handler = "ContextComparisonHandler" -> rule.type = CONTEXT_COMPARISON

\* RuleEngineService._get_handler_for_rule: the first handler that can
\* handle the rule, or Missing (None)
get_handler_for_rule(rule) ==
    LET able == SelectSeq(handlers, LAMBDA h : can_handle(h, rule))
    IN  IF able = << >> THEN Missing ELSE Head(able)

\* handler.process_rule(rule, text, user_context)
process_rule(handler, rule, text, context) ==
    CASE handler = "NumericThresholdHandler" ->
             NumericThresholdHandler_process_rule(rule, text, context)
      [] handler = "RegexPresenceHandler" ->
             RegexPresenceHandler_process_rule(rule, text, context)
      [] handler = "RegexAbsenceHandler" ->
             RegexAbsenceHandler_process_rule(rule, text, context)
      [] handler = "RegexAmountHandler" ->
             RegexAmountHandler_process_rule(rule, text, context)
      [] handler = "CompoundRuleHandler" ->
             CompoundRuleHandler_process_rule(rule, text, context)
      [] handler = "CrossReferencePatternHandler" ->
             CrossReferencePatternHandler_process_rule(rule, text, context)
      [] handler = "ContextComparisonHandler" ->
             ContextComparisonHandler_process_rule(rule, text, context)

(***************************************************************************)
(* services/analysis/scoring_service.py.  A ScoringService is the record   *)
(* [max_score, severity_weights] of its attributes; severity_weights is a  *)
(* function from severity names to weights.                                *)
(***************************************************************************)
\* the default of max_score (and Settings.max_forensic_score)
DefaultMaxScore == 100

\* the default severity weights of ScoringService.__init__ and Settings
DefaultWeights == [ high |-> 20, medium |-> 10, low |-> 5 ]

\* ScoringService.__init__: severity_weights or the default; the argument
\* is None or Some(dict)
ScoringService(max_score, severity_weights) ==
    [ max_score |-> max_score,
      severity_weights |->
          IF severity_weights = None \/ DOMAIN Val(severity_weights) = {}
          THEN DefaultWeights
          ELSE Val(severity_weights) ]

\* the weight lookup altered: every severity weighs the fallback
weight_of_Fallback(self, flag) == 5

\* self.severity_weights.get(flag.severity.value, 5)
weight_of(self, flag) ==
    IF flag.severity \in DOMAIN self.severity_weights
    THEN self.severity_weights[flag.severity]
    ELSE 5

RECURSIVE total_deductions(_, _)
\* the loop of calculate_forensic_score: every flag has a severity and adds
\* its weight
total_deductions(self, flags) ==
    IF flags = << >> THEN 0
    ELSE weight_of(self, Head(flags)) + total_deductions(self, Tail(flags))

\* the floor of calculate_forensic_score altered: no floor
floor_score_Missing(score) == score

\* max(0, self.max_score - total_deductions)
floor_score(score) == Max(0, score)

\* ScoringService.calculate_forensic_score
calculate_forensic_score(self, flags) ==
    IF flags = << >> THEN self.max_score
    ELSE floor_score(self.max_score - total_deductions(self, flags))

\* the loop of categorize_flags_by_severity for one key of severity_counts:
\* `if flag.severity: severity_counts[flag.severity] += 1`
severity_count(flags, severity) ==
    Cardinality({ k \in 1..Len(flags) :
                     flags[k].severity \in FlagSeverity /\ flags[k].severity = severity })

\* ScoringService.categorize_flags_by_severity
categorize_flags_by_severity(flags) ==
    [ high   |-> severity_count(flags, HIGH),
      medium |-> severity_count(flags, MEDIUM),
      low    |-> severity_count(flags, LOW) ]

(***************************************************************************)
(* models/report.py.  The construction of a ReportAnalytics either raises  *)
(* ValueError in __post_init__ or gives the record of its fields.          *)
(***************************************************************************)
\* ReportAnalytics(...) followed by __post_init__: a score outside 0..100
\* raises; a total that is not the sum of the counts is let through (`pass`)
ReportAnalytics(score, total_flags, high_severity, medium_severity, low_severity) ==
    IF score < 0 \/ score > 100
    THEN [ exc |-> "ValueError", fields |-> None ]
    ELSE [ exc |-> "none",
           fields |-> Some([ forensic_score  |-> score,
                             total_flags     |-> total_flags,
                             high_severity   |-> high_severity,
                             medium_severity |-> medium_severity,
                             low_severity    |-> low_severity ]) ]

\* ScoringService.create_analytics
create_analytics(self, flags) ==
    LET severity_counts == categorize_flags_by_severity(flags)
        score == calculate_forensic_score(self, flags)
    IN  ReportAnalytics(score, Len(flags), severity_counts.high,
                        severity_counts.medium, severity_counts.low)

\* the deductions of Report.calculate_analytics altered: every flag weighs 10
report_total_deductions_Flat(severity_counts) ==
    10 * (severity_counts.high + severity_counts.medium + severity_counts.low)

\* sum(count * severity_weights[severity] for severity, count in
\* severity_counts.items()) with the weights 20, 10 and 5 of the method
report_total_deductions(severity_counts) ==
    severity_counts.high * 20 + severity_counts.medium * 10
        + severity_counts.low * 5

\* Report.calculate_analytics on a report with these flags
Report_calculate_analytics(flags) ==
    LET severity_counts == [ high   |-> severity_count(flags, HIGH),
                             medium |-> severity_count(flags, MEDIUM),
                             low    |-> severity_count(flags, LOW) ]
        score == Max(0, 100 - report_total_deductions(severity_counts))
    IN  ReportAnalytics(score, Len(flags), severity_counts.high,
                        severity_counts.medium, severity_counts.low)

(***************************************************************************)
(* engine_original.py (and engine.py, whose check_text and rule checks are *)
(* the same code): the legacy RuleEngine.  A rule is the dict of its       *)
(* configuration entry, read with rule.get(key, default); the user context *)
(* is the dict of the same user input, with the same fields.               *)
(***************************************************************************)
\* rule.get('threshold', 0)
legacy_threshold(rule) == IF rule.threshold = None THEN 0 ELSE Val(rule.threshold)

\* the if/elif chain of the legacy checks: an operator that is none of the
\* five leaves condition_met False
legacy_condition(value, threshold, operator) ==
    CASE operator = ">"  -> value > threshold
      [] operator = "<"  -> value < threshold
      [] operator = ">=" -> value >= threshold
      [] operator = "<=" -> value <= threshold
      [] operator = "==" -> value = threshold
      [] OTHER           -> FALSE

\* message.replace('${value}', f'${value_str}').replace('{value}', str(value))
legacy_format_value(message, value_str, value) ==
    Concat([i \in 1..Len(message) |->
               IF message[i] = "{value}"
               THEN IF i > 1 /\ message[i - 1] = "$" THEN value_str
                    ELSE FloatStr(value)
               ELSE << message[i] >>])

\* the body of the loop of RuleEngine._check_numeric_threshold
legacy_numeric_threshold_match(rule, text, k) ==
    LET pattern == ConfigGet(rule.pattern, "")
    IN  IF ~HasGroup(pattern) THEN << >>
        ELSE LET value_str == StripCommas(text[k].val)
             IN  IF ~IsFloatLiteral(value_str) THEN << >>
                 ELSE IF legacy_condition(FloatValue(value_str),
                                          legacy_threshold(rule),
                                          ConfigGet(rule.operator, ">"))
                 THEN << [ rule |-> rule.name,
                           message |-> legacy_format_value(rule.message,
                                           value_str, FloatValue(value_str)),
                           snippet |-> extract_snippet(text, k, k) ] >>
                 ELSE << >>

\* RuleEngine._check_numeric_threshold
legacy_check_numeric_threshold(rule, text) ==
    LET pattern == ConfigGet(rule.pattern, "")
    IN  IF ~ValidPattern(pattern) THEN Raised("re.error")
        ELSE LET matches == FindIter(pattern, text)
             IN  Returned(Concat([j \in 1..Len(matches) |->
                     legacy_numeric_threshold_match(rule, text, matches[j])]))

\* RuleEngine._check_regex_absence
legacy_check_regex_absence(rule, text) ==
    LET pattern == ConfigGet(rule.pattern, "")
    IN  IF ~ValidPattern(pattern) THEN Raised("re.error")
        ELSE IF Search(pattern, text) = None
        THEN Returned(<< [ rule |-> rule.name, message |-> rule.message,
                           snippet |-> PatternNotFound ] >>)
        ELSE Returned(<< >>)

\* RuleEngine._check_regex_presence
legacy_check_regex_presence(rule, text) ==
    LET pattern == ConfigGet(rule.pattern, "")
    IN  IF ~ValidPattern(pattern) THEN Raised("re.error")
        ELSE LET match == Search(pattern, text)
             IN  IF match # None
                 THEN Returned(<< [ rule |-> rule.name, message |-> rule.message,
                                    snippet |-> extract_snippet(text, Val(match),
                                                                Val(match)) ] >>)
                 ELSE Returned(<< >>)

\* the chain of RuleEngine._check_regex_amount, which has no '==' branch
legacy_amount_condition(value, threshold, operator) ==
    CASE operator = ">"  -> value > threshold
      [] operator = "<"  -> value < threshold
      [] operator = ">=" -> value >= threshold
      [] operator = "<=" -> value <= threshold
      [] OTHER           -> FALSE

\* message.replace('${value}', f'${value_str}')
legacy_format_dollar_value(message, value_str) ==
    Concat([i \in 1..Len(message) |->
               IF message[i] = "{value}" /\ i > 1 /\ message[i - 1] = "$"
               THEN value_str
               ELSE << message[i] >>])

\* the body of the loop of RuleEngine._check_regex_amount
legacy_regex_amount_match(rule, text, k) ==
    LET pattern == ConfigGet(rule.pattern, "")
    IN  IF ~HasGroup(pattern) THEN << >>
        ELSE LET value_str == StripCommas(text[k].val)
             IN  IF ~IsFloatLiteral(value_str) THEN << >>
                 ELSE IF legacy_amount_condition(FloatValue(value_str),
                                                 legacy_threshold(rule),
                                                 ConfigGet(rule.operator, ">"))
                 THEN << [ rule |-> rule.name,
                           message |-> legacy_format_dollar_value(rule.message,
                                                                  value_str),
                           snippet |-> extract_snippet(text, k, k) ] >>
                 ELSE << >>

\* RuleEngine._check_regex_amount
legacy_check_regex_amount(rule, text) ==
    LET pattern == ConfigGet(rule.pattern, "")
    IN  IF ~ValidPattern(pattern) THEN Raised("re.error")
        ELSE LET matches == FindIter(pattern, text)
             IN  Returned(Concat([j \in 1..Len(matches) |->
                     legacy_regex_amount_match(rule, text, matches[j])]))

\* f'{x:.2f}' for a non-negative x in hundredths
Fixed2Str(h) ==
    NatStr(h \div 100) \o << ".", Digits[((h % 100) \div 10) + 1],
                             Digits[(h % 10) + 1] >>

\* RuleEngine._check_calculated_percentage
legacy_check_calculated_percentage(rule, text) ==
    LET numerator_pattern   == ConfigGet(rule.numerator_pattern, "")
        denominator_pattern == ConfigGet(rule.denominator_pattern, "")
    IN
    IF ~ValidPattern(numerator_pattern) THEN Raised("re.error")
    ELSE LET numerator_match == Search(numerator_pattern, text)
    IN
    IF numerator_match = None THEN Returned(<< >>)
    ELSE IF ~HasGroup(numerator_pattern) THEN Returned(<< >>)
    ELSE LET numerator_str == StripCommas(text[Val(numerator_match)].val)
    IN
    IF ~IsFloatLiteral(numerator_str) THEN Returned(<< >>)
    ELSE IF ~ValidPattern(denominator_pattern) THEN Raised("re.error")
    ELSE LET denominator_match == Search(denominator_pattern, text)
    IN
    IF denominator_match = None THEN Returned(<< >>)
    ELSE IF ~HasGroup(denominator_pattern) THEN Returned(<< >>)
    ELSE LET denominator_str == StripCommas(text[Val(denominator_match)].val)
    IN
    IF ~IsFloatLiteral(denominator_str) THEN Returned(<< >>)
    ELSE LET numerator   == FloatValue(numerator_str)
             denominator == FloatValue(denominator_str)
    IN
    IF denominator = 0 THEN Returned(<< >>)
    ELSE IF legacy_condition(
                percentage_key(percentage_of(numerator, denominator)),
                2 * legacy_threshold(rule),
                ConfigGet(rule.operator, ">"))
    THEN Returned(<< [ rule |-> rule.name,
             message |->
                 format_message(rule.message,
                     << << "{percentage}",
                           Fixed2Str(round_percentage(
                               percentage_of(numerator, denominator),
                               denominator)) >>,
                        << "{numerator}", << "$" >> \o numerator_str >>,
                        << "{denominator}", << "$" >> \o denominator_str >> >>),
             snippet |->
                 Sentinel("Numerator: ")
                 \o extract_snippet(text, Val(numerator_match), Val(numerator_match))
                 \o Sentinel(" | Denominator: ")
                 \o extract_snippet(text, Val(denominator_match),
                                    Val(denominator_match)) ] >>)
    ELSE Returned(<< >>)

\* RuleEngine._check_context_comparison altered: the pattern of the rule
\* is looked for as a regex_presence rule does
legacy_check_context_comparison_Presence(rule, text) ==
    legacy_check_regex_presence(rule, text)

\* RuleEngine._check_context_comparison: nothing without a context
legacy_check_context_comparison(rule, text) == Returned(<< >>)

\* the default of value_name, f'value{i+1}', as a placeholder of the message
ValueName(k) ==
    CASE k = 1 -> "{value1}"
      [] k = 2 -> "{value2}"
      [] OTHER -> "{value3}"

RECURSIVE legacy_compound_conditions(_, _, _)
\* the loop of RuleEngine._check_compound_rule from condition k on: the
\* exception that escaped ("none" if none), whether the loop ran to its end
\* (it returns [] at a condition without a match or with a value that does
\* not parse), and the results and values collected
legacy_compound_conditions(conditions, text, k) ==
    IF k > Len(conditions)
    THEN [ exc |-> "none", completed |-> TRUE, results |-> << >>, values |-> << >> ]
    ELSE LET condition == conditions[k]
             pattern   == ConfigGet(condition.pattern, "")
             threshold == IF condition.threshold = None THEN 0
                          ELSE Val(condition.threshold)
             operator  == ConfigGet(condition.operator, ">")
             stop      == [ exc |-> "none", completed |-> FALSE,
                            results |-> << >>, values |-> << >> ]
         IN
         IF ~ValidPattern(pattern) THEN [ stop EXCEPT !.exc = "re.error" ]
         ELSE LET match == Search(pattern, text)
         IN
         IF match = None THEN stop
         ELSE IF ~HasGroup(pattern) THEN stop
         ELSE LET value_str == StripCommas(text[Val(match)].val)
         IN
         IF ~IsFloatLiteral(value_str) THEN stop
         ELSE LET rest == legacy_compound_conditions(conditions, text, k + 1)
              IN  [ rest EXCEPT
                      !.results = << legacy_condition(FloatValue(value_str),
                                                      threshold, operator) >> \o @,
                      !.values = << << ValueName(k),
                                       FloatStr(FloatValue(value_str)) >> >> \o @ ]

\* RuleEngine._check_compound_rule: every condition is a numeric one and all
\* of them must hold; the `logic` and `type` keys are not read
legacy_check_compound_rule(rule, text) ==
    LET conditions == rule.conditions
        loop       == legacy_compound_conditions(conditions, text, 1)
    IN  IF conditions = << >> THEN Returned(<< >>)
        ELSE IF loop.exc # "none" THEN Raised(loop.exc)
        ELSE IF loop.completed /\ \A k \in 1..Len(loop.results) : loop.results[k]
        THEN Returned(<< [ rule |-> rule.name,
                           message |-> format_message(rule.message, loop.values),
                           snippet |->
                               Sentinel("Multiple conditions met: ")
                               \o [k \in 1..Len(loop.values) |->
                                      [ label |-> loop.values[k][1],
                                        val |-> loop.values[k][2] ]] ] >>)
        ELSE Returned(<< >>)

\* re.findall(r'\b[A-Z]{2,}\b', primary_value): the runs of word characters
\* that are two or more capital letters
all_caps_tokens(primary_value) ==
    { token \in RunsOf(primary_value, IsWordChar) :
          /\ Len(token) >= 2
          /\ \A k \in 1..Len(token) : IsUpperLetter(token[k]) }

\* the primary_keywords of _check_cross_reference_pattern
primary_keywords(primary_value) ==
    IF all_caps_tokens(primary_value) # {}
    THEN all_caps_tokens(primary_value)
    ELSE { Upper(word) : word \in { w \in SplitWords(primary_value) : Len(w) > 2 } }

\* match_found of _check_cross_reference_pattern for one matched secondary
\* value
match_found(fuzzy_match, primary_value, secondary_value) ==
    IF fuzzy_match
    THEN \E keyword \in primary_keywords(primary_value) :
             Contains(secondary_value, keyword)
    ELSE primary_value = secondary_value

RECURSIVE legacy_matched_services(_, _, _, _, _)
\* the loop of _check_cross_reference_pattern over secondary_patterns from
\* entry k on: the exception that escaped and the services matched
legacy_matched_services(secondary_patterns, text, fuzzy_match, primary_value, k) ==
    IF k > Len(secondary_patterns) THEN [ exc |-> "none", services |-> << >> ]
    ELSE LET pattern      == ConfigGet(secondary_patterns[k].pattern, "")
             service_name == ConfigGet(secondary_patterns[k].service, "service")
             rest == legacy_matched_services(secondary_patterns, text, fuzzy_match,
                                             primary_value, k + 1)
         IN
         IF ~ValidPattern(pattern) THEN [ exc |-> "re.error", services |-> << >> ]
         ELSE LET secondary_match == Search(pattern, text)
         IN
         IF secondary_match = None THEN rest
         ELSE IF ~HasGroup(pattern) THEN [ exc |-> "IndexError", services |-> << >> ]
         ELSE IF match_found(fuzzy_match, primary_value,
                             Upper(Strip(text[Val(secondary_match)].val)))
         THEN [ rest EXCEPT !.services = << service_name >> \o @ ]
         ELSE rest

\* RuleEngine._check_cross_reference_pattern.  The services of the message
\* and the snippet are kept as the list of their names.
legacy_check_cross_reference_pattern(rule, text) ==
    LET primary_pattern == ConfigGet(rule.primary_pattern, "")
        \* rule.get('fuzzy_match', True), a YAML boolean written "True"/"False"
        fuzzy_match     == ConfigGet(rule.fuzzy_match, "True") = "True"
    IN  IF ~ValidPattern(primary_pattern) THEN Raised("re.error")
        ELSE LET primary_match == Search(primary_pattern, text)
        IN
        IF primary_match = None THEN Returned(<< >>)
        ELSE IF ~HasGroup(primary_pattern) THEN Raised("IndexError")
        ELSE LET primary_value == Upper(Strip(text[Val(primary_match)].val))
                 loop == legacy_matched_services(rule.secondary_patterns, text,
                                                 fuzzy_match, primary_value, 1)
        IN
        IF loop.exc # "none" THEN Raised(loop.exc)
        ELSE IF loop.services # << >>
        THEN Returned(<< [ rule |-> rule.name,
                 message |-> format_message(rule.message,
                                 << << "{primary}", primary_value >>,
                                    << "{services}", loop.services >> >>),
                 snippet |-> Sentinel("Primary: ")
                             \o << [ label |-> "primary", val |-> primary_value ] >>
                             \o Sentinel(" | Matched services: ")
                             \o << [ label |-> "services", val |-> loop.services ] >>
               ] >>)
        ELSE Returned(<< >>)

\* RuleEngine._apply_rule
apply_rule(rule, text) ==
    CASE rule.type = NUMERIC_THRESHOLD -> legacy_check_numeric_threshold(rule, text)
      [] rule.type = REGEX_ABSENCE     -> legacy_check_regex_absence(rule, text)
      [] rule.type = REGEX_AMOUNT      -> legacy_check_regex_amount(rule, text)
      [] rule.type = CALCULATED_PERCENTAGE ->
             legacy_check_calculated_percentage(rule, text)
      [] rule.type = COMPOUND_RULE     -> legacy_check_compound_rule(rule, text)
      [] rule.type = CROSS_REFERENCE_PATTERN ->
             legacy_check_cross_reference_pattern(rule, text)
      [] rule.type = REGEX_PRESENCE    -> legacy_check_regex_presence(rule, text)
      [] rule.type = CONTEXT_COMPARISON ->
             legacy_check_context_comparison(rule, text)
      [] rule.type \notin RuleType     -> Returned(<< >>)

RECURSIVE CommaNat(_)
\* f'{n:,}' for a natural number n
CommaNat(n) ==
    IF n < 1000 THEN NatStr(n)
    ELSE CommaNat(n \div 1000)
         \o << ",", Digits[((n % 1000) \div 100) + 1],
               Digits[((n % 100) \div 10) + 1], Digits[(n % 10) + 1] >>

\* f'${x:,.2f}' for a non-negative x in hundredths
DollarStr(h) ==
    << "$" >> \o CommaNat(h \div 100)
    \o << ".", Digits[((h % 100) \div 10) + 1], Digits[(h % 10) + 1] >>

\* f'{p:.1f}%' for the percentage a / b * 100, a >= 0 and b > 0
PercentStr(a, b) ==
    LET p      == percentage_of(a, b)
        floor  == p[1] \div 10
        rest   == p[1] % 10
        tenths == IF rest > 5 \/ (rest = 5 /\ p[2] > 0) THEN floor + 1
                  ELSE IF rest = 5 /\ floor % 2 = 1 THEN floor + 1
                  ELSE floor
    IN  NatStr(tenths \div 10) \o << ".", Digits[(tenths % 10) + 1], "%" >>

\* the default of tolerance_percentage, 5.0
LegacyDefaultTolerance == Amount(5)

\* one branch of RuleEngine._check_context_comparison_with_context:
\* `expected` is user_context.get('expectedPurchasePrice') or
\* user_context.get('expectedLoanAmount')
legacy_compare_expected(rule, text, expected) ==
    LET pattern == ConfigGet(rule.pattern, "")
        tolerance_percentage ==
            IF rule.tolerance_percentage = None THEN LegacyDefaultTolerance
            ELSE Val(rule.tolerance_percentage)
    IN
    IF expected_missing(expected) THEN Returned(<< >>)
    ELSE IF ~ValidPattern(pattern) THEN Raised("re.error")
    ELSE LET match == Search(pattern, text)
    IN
    IF match = None THEN Returned(<< >>)
    ELSE IF ~HasGroup(pattern) THEN Returned(<< >>)
    ELSE LET actual_str == StripCommas(text[Val(match)].val)
    IN
    IF ~IsFloatLiteral(actual_str) THEN Returned(<< >>)
    ELSE IF Val(expected) = 0 THEN Raised("ZeroDivisionError")
    ELSE LET actual     == FloatValue(actual_str)
             difference == Abs(actual - Val(expected))
    IN
    IF percentage_key(percentage_of(difference, Val(expected)))
           > 2 * tolerance_percentage
    THEN Returned(<< [ rule |-> rule.name,
             message |->
                 format_message(rule.message,
                     << << "{expected}", DollarStr(Val(expected)) >>,
                        << "{actual}", DollarStr(actual) >>,
                        << "{difference}",
                           PercentStr(difference, Val(expected)) >> >>),
             snippet |-> extract_snippet(text, Val(match), Val(match)) ] >>)
    ELSE Returned(<< >>)

\* RuleEngine._check_context_comparison_with_context
legacy_check_context_comparison_with_context(rule, text, user_context) ==
    LET comparison_type == ConfigGet(rule.comparison_type, "")
    IN  CASE comparison_type = "purchase_price" ->
                 legacy_compare_expected(rule, text,
                                         user_context.expected_purchase_price)
          [] comparison_type = "loan_amount" ->
                 legacy_compare_expected(rule, text,
                                         user_context.expected_loan_amount)
          [] OTHER -> Returned(<< >>)

\* the markers check_text_with_context recognises an enhanced flag by
BrokenPromise       == << HighMarker, " BROKEN PROMISE" >>
CaptiveLender       == << HighMarker, " CAPTIVE LENDER CONFIRMED" >>
RepresentationFraud == << HighMarker, " REPRESENTATION FRAUD" >>

\* the first match of the zero-closing-costs loop whose value parses and
\* exceeds 500, as a sequence of at most one position
RECURSIVE first_over_floor(_, _)
first_over_floor(text, matches) ==
    IF matches = << >> THEN << >>
    ELSE LET value_str == StripCommas(text[Head(matches)].val)
         IN  IF IsFloatLiteral(value_str) /\ FloatValue(value_str) > Amount(500)
             THEN << Head(matches) >>
             ELSE first_over_floor(text, Tail(matches))

\* the words of builder_name.split() longer than 2 characters; a name is a
\* sequence of words
builder_keywords(builder_name) ==
    { builder_name[i] : i \in { j \in 1..Len(builder_name) : Len(builder_name[j]) > 2 } }

\* RuleEngine._check_context_specific_rules.  The lender line is an item
\* labelled "lender" whose val is the captured lender name; the broker line
\* showing N/A is an item labelled "broker_na".
check_context_specific_rules(rule, text, user_context) ==
    IF rule.name = "zero_closing_costs_deception"
          /\ user_context.promised_zero_closing_costs
    THEN LET hit == first_over_floor(text, FindIter(ClosingCostsPattern, text))
         IN  IF hit = << >> THEN << >>
             ELSE << [ rule |-> rule.name,
                       message |-> BrokenPromise
                           \o << ": You were specifically promised ZERO closing costs but are paying $" >>
                           \o StripCommas(text[hit[1]].val),
                       snippet |-> extract_snippet(text, hit[1], hit[1]) ] >>
    ELSE IF rule.name = "builder_captive_services"
          /\ user_context.used_builders_preferred_lender
    THEN LET lender_match == Search("lender:(#)", text)
         IN  IF user_context.builder_name = << >> \/ lender_match = None THEN << >>
             ELSE LET lender_name == text[Val(lender_match)].val
                  IN  IF \E keyword \in builder_keywords(user_context.builder_name) :
                             Contains(lender_name, keyword)
                      THEN << [ rule |-> rule.name,
                                message |-> CaptiveLender
                                    \o << ": You used " >> \o Concat(user_context.builder_name)
                                    \o << "'s preferred lender (" >> \o lender_name
                                    \o << ") - you likely paid inflated rates" >>,
                                snippet |-> Sentinel("Builder | Lender") ] >>
                      ELSE << >>
    ELSE IF rule.name = "missing_buyer_representation"
          /\ user_context.had_buyer_agent
    THEN IF Search("broker_na:#", text) # None
         THEN << [ rule |-> rule.name,
                   message |-> RepresentationFraud
                       \o << ": You thought your agent was your buyer's agent but document shows N/A - you had no independent representation" >>,
                   snippet |-> Sentinel("Real Estate Broker (B): N/A") ] >>
         ELSE << >>
    ELSE << >>

\* RuleEngine._apply_rule_with_context: an exception of the regular check
\* escapes; otherwise regular_flags + context_flags
apply_rule_with_context(rule, text, user_context) ==
    IF rule.type = CONTEXT_COMPARISON
    THEN legacy_check_context_comparison_with_context(rule, text, user_context)
    ELSE LET regular == apply_rule(rule, text)
         IN  IF regular.exc # "none" THEN regular
             ELSE Returned(regular.flags
                           \o check_context_specific_rules(rule, text, user_context))

\* the filter of check_text_with_context for context-enhanced flags
context_enhanced(rule_flags) ==
    SelectSeq(rule_flags,
              LAMBDA f : \/ Contains(f.message, BrokenPromise)
                         \/ Contains(f.message, CaptiveLender)
                         \/ Contains(f.message, RepresentationFraud))

(***************************************************************************)
(* engine_original.py: the scoring of the legacy RuleEngine, which reads    *)
(* the severity off the message of each flag dict.                         *)
(***************************************************************************)
\* the if/elif/else on the lowered message of calculate_forensic_score and
\* categorize_flags_by_severity
legacy_severity(message) ==
    LET lowered == Lower(message)
    IN  IF \E keyword \in HighKeywords : Contains(lowered, keyword) THEN HIGH
        ELSE IF \E keyword \in MediumKeywords : Contains(lowered, keyword)
        THEN MEDIUM
        ELSE LOW

\* the loop of RuleEngine.calculate_forensic_score altered: every flag
\* deducts the weight of a low flag
legacy_total_deductions_Low(flags) == DefaultWeights.low * Len(flags)

RECURSIVE legacy_total_deductions(_)
\* the loop of RuleEngine.calculate_forensic_score over its local weights
legacy_total_deductions(flags) ==
    IF flags = << >> THEN 0
    ELSE DefaultWeights[legacy_severity(Head(flags).message)]
         + legacy_total_deductions(Tail(flags))

\* RuleEngine.calculate_forensic_score
legacy_calculate_forensic_score(flags) ==
    IF flags = << >> THEN DefaultMaxScore
    ELSE Max(0, DefaultMaxScore - legacy_total_deductions(flags))

(***************************************************************************)
(* Inputs: rule entries, document items, messages.                         *)
(***************************************************************************)
\* a configuration entry with every optional key absent; mapping tells
\* whether the entry of the rules list is a YAML mapping
BaseRule ==
    [ mapping |-> TRUE,
      name |-> "rule", type |-> REGEX_PRESENCE, message |-> << "f", "e", "e" >>,
      enabled |-> TRUE, pattern |-> Missing, threshold |-> None,
      operator |-> Missing, numerator_pattern |-> Missing,
      denominator_pattern |-> Missing, comparison_type |-> Missing,
      tolerance_percent |-> None, tolerance_percentage |-> None,
      promise_type |-> Missing, conditions |-> << >>, logic |-> Missing,
      primary_pattern |-> Missing, reference_pattern |-> Missing,
      secondary_patterns |-> << >>, fuzzy_match |-> Missing ]

\* the operator strings of the configurations: absent, the five the handlers
\* know and one they do not
Operators == { Missing, ">", "<", ">=", "<=", "==", "!=" }

\* captured amounts as the documents print them
V4999_99 == << "4", ",", "9", "9", "9", ".", "9", "9" >>
V5000    == << "5", "0", "0", "0" >>
V5000_01 == << "5", "0", "0", "0", ".", "0", "1" >>
VZero    == << "0", ".", "0", "0" >>
VBad     == << "1", ".", "2", ".", "3" >>
AmountStrings == { V4999_99, V5000, V5000_01, VZero, VBad }

Item(label, val) == [ label |-> label, val |-> val ]

\* the lines of the documents handed to a single handler
EvalItems == { Item(l, v) : l \in { "Total", "LOAN" }, v \in AmountStrings }
EvalTexts == SeqUpTo(EvalItems, MaxTextLen)

\* message templates with the placeholders of the numeric handlers
ValueMessage == << "f", "e", "e", " ", "$", "{value}" >>
PercentageMessage == << "{percentage}", "%", " ", "o", "f", " ", "{denominator}" >>

\* numeric_threshold entries: the boundary threshold 5000 under every
\* operator, and entries with a part missing or malformed
NumericThresholdRules ==
    { [ BaseRule EXCEPT !.name = "high_total", !.type = NUMERIC_THRESHOLD,
                        !.message = ValueMessage, !.pattern = "total:(#)",
                        !.threshold = Some(Amount(5000)), !.operator = op ] :
          op \in Operators }
    \cup
    { [ BaseRule EXCEPT !.name = "high_total", !.type = NUMERIC_THRESHOLD,
                        !.message = ValueMessage, !.pattern = pat,
                        !.threshold = Some(Amount(5000)) ] :
          pat \in { "", BadPattern, "total:#", Missing } }
    \cup
    { [ BaseRule EXCEPT !.name = "high_total", !.type = NUMERIC_THRESHOLD,
                        !.message = ValueMessage, !.pattern = "total:(#)" ] }

\* calculated_percentage entries: the threshold 100 (per cent) under every
\* operator and both orders of the patterns, and malformed entries
CalculatedPercentageRules ==
    { [ BaseRule EXCEPT !.name = "fee_share", !.type = CALCULATED_PERCENTAGE,
                        !.message = PercentageMessage,
                        !.numerator_pattern = np, !.denominator_pattern = dp,
                        !.threshold = Some(Amount(100)), !.operator = op ] :
          np \in { "total:(#)", "loan:(#)" }, dp \in { "total:(#)", "loan:(#)" },
          op \in Operators }
    \cup
    { [ BaseRule EXCEPT !.name = "fee_share", !.type = CALCULATED_PERCENTAGE,
                        !.message = PercentageMessage,
                        !.numerator_pattern = np, !.denominator_pattern = dp,
                        !.threshold = Some(Amount(100)) ] :
          np \in { "total:(#)", "total:#", BadPattern, Missing },
          dp \in { "loan:(#)", BadPattern, "" } }
    \cup
    { [ BaseRule EXCEPT !.name = "fee_share", !.type = CALCULATED_PERCENTAGE,
                        !.message = PercentageMessage,
                        !.numerator_pattern = "total:(#)",
                        !.denominator_pattern = "loan:(#)" ] }

\* regex_amount entries: the same threshold, patterns and operators as the
\* numeric_threshold entries
RegexAmountRules ==
    { [ BaseRule EXCEPT !.name = "high_amount", !.type = REGEX_AMOUNT,
                        !.message = ValueMessage, !.pattern = "total:(#)",
                        !.threshold = Some(Amount(5000)), !.operator = op ] :
          op \in Operators }
    \cup
    { [ BaseRule EXCEPT !.name = "high_amount", !.type = REGEX_AMOUNT,
                        !.message = ValueMessage, !.pattern = pat,
                        !.threshold = Some(Amount(5000)) ] :
          pat \in { "", BadPattern, "total:#", Missing } }

EvalRules ==
    NumericThresholdRules \cup CalculatedPercentageRules \cup RegexAmountRules

\* the pieces flag messages are composed of
Fragments ==
    { << "C", "R", "I", "T", "I", "C", "A", "L" >>,
      << "E", "r", "r", "o", "r" >>,
      << "f", "r", "a", "u", "d" >>,
      << HighMarker >>,
      << "W", "a", "r", "n", "i", "n", "g" >>,
      << "D", "A", "N", "G", "E", "R", "O", "U", "S" >>,
      << "e", "x", "c", "e", "s", "s", "i", "v", "e" >>,
      << MediumMarker >>,
      << "f", "e", "e" >>,
      << " " >>,
      << "e", "r", "r" >>,
      << "o", "r" >>,
      << "w", "a", "r", "n" >>,
      << "i", "n", "g" >> }

\* one flag of each severity, as the handlers build them, and one whose
\* message holds a medium keyword before a high keyword in capitals
SampleFlags ==
    { Flag("a", << "f", "r", "a", "u", "d" >>, PatternNotFound),
      Flag("b", << "w", "a", "r", "n", "i", "n", "g" >>, PatternNotFound),
      Flag("c", << "f", "e", "e" >>, PatternNotFound),
      Flag("d", << "W", "a", "r", "n", "i", "n", "g", " ",
                   "C", "R", "I", "T", "I", "C", "A", "L" >>, PatternNotFound) }

\* the max_score arguments of the scoring services
MaxScores == { 0 - 10, 0, 30, DefaultMaxScore }

\* the severity_weights arguments: None, the weights of Settings, other
\* weights, a dict with one key, a dict with a negative weight
SeverityWeights ==
    { None,
      Some([ high |-> 20, medium |-> 10, low |-> 5 ]),
      Some([ high |-> 60, medium |-> 0, low |-> 7 ]),
      Some([ high |-> 20 ]),
      Some([ high |-> 20, medium |-> 0 - 10, low |-> 5 ]) }

(***************************************************************************)
(* State.                                                                  *)
(*  Orchestrators: config is the rule file; pc, entry, text, user_context, *)
(*  rules, i, flags and flagged_rules are the call in progress (its        *)
(*  arguments and locals); positions, dispatched and origin record, for    *)
(*  the properties, where each rule of the loop stands in the file, which  *)
(*  rules reached an evaluator and which rule produced each flag; memo is  *)
(*  one earlier call and its result.                                       *)
(*  Single handler call: ev_rule, ev_text, ev_context and the results of   *)
(*  the modular handler and of the legacy check.                           *)
(*  Scoring: the constructor arguments, the service, the flag list and the *)
(*  scores of the service and of the legacy engine.                        *)
(*  Flag construction: the fragments of the message, the flag built and    *)
(*  the severity the legacy engine reads off the message.                  *)
(*  Calls at the same time: calls holds, for each call, its position, its  *)
(*  arguments and the list and the set it created.                         *)
(*  Analytics: the results of create_analytics and of                      *)
(*  Report.calculate_analytics on the flag list of the scoring state.      *)
(*  Application: reports_store is the module-level dict of main.py, as the *)
(*  set of its values; issued counts the calls of uuid4; uploads holds,    *)
(*  for each upload that passed validation, its document, its context and  *)
(*  how far it got; deleted records, for the properties, the ids that were *)
(*  deleted; response is the response the last step sent, None when it    *)
(*  sent none.                                                             *)
(***************************************************************************)
VARIABLES
    config, pc, entry, text, user_context, rules, i, flags, flagged_rules,
    positions, dispatched, origin, memo,
    ev_rule, ev_text, ev_context, ev_modular, ev_legacy,
    service_args, scoring_service, score_flags, forensic_score, legacy_score,
    fl_frags, fl_flag, fl_legacy,
    calls, analytics, report_analytics,
    reports_store, issued, uploads, deleted, response

orchVars  == << config, pc, entry, text, user_context, rules, i, flags,
                flagged_rules, positions, dispatched, origin, memo >>
evalVars  == << ev_rule, ev_text, ev_context, ev_modular, ev_legacy >>
scoreVars == << service_args, scoring_service, score_flags, forensic_score,
                legacy_score >>
flagVars  == << fl_frags, fl_flag, fl_legacy >>
storeVars == << reports_store, issued, uploads, deleted, response >>
appVars   == << calls, analytics, report_analytics, storeVars >>
vars      == << orchVars, evalVars, scoreVars, flagVars, appVars >>

\* no engine constructed, no call in progress
IdleOrch ==
    /\ config = [ exists |-> FALSE, rules |-> << >> ]
    /\ pc = "off"
    /\ entry = ""
    /\ text = << >>
    /\ user_context = None
    /\ rules = << >>
    /\ i = 0
    /\ flags = << >>
    /\ flagged_rules = {}
    /\ positions = << >>
    /\ dispatched = {}
    /\ origin = << >>
    /\ memo = None

\* no concurrent call, no analytics, no request served
IdleApp ==
    /\ calls = << >>
    /\ analytics = None
    /\ report_analytics = None
    /\ reports_store = {}
    /\ issued = 0
    /\ uploads = << >>
    /\ deleted = {}
    /\ response = None

IdleEval ==
    /\ ev_rule = BaseRule
    /\ ev_text = << >>
    /\ ev_context = None
    /\ ev_modular = None
    /\ ev_legacy = None

IdleScore ==
    /\ service_args = [ max_score |-> DefaultMaxScore, severity_weights |-> None ]
    /\ scoring_service = ScoringService(DefaultMaxScore, None)
    /\ score_flags = << >>
    /\ forensic_score = None
    /\ legacy_score = None

IdleFlag ==
    /\ fl_frags = << >>
    /\ fl_flag = None
    /\ fl_legacy = None

(***************************************************************************)
(* SpecFlag: a Flag is built from a message.                               *)
(***************************************************************************)
InitFlag ==
    /\ fl_frags \in SeqUpTo(Fragments, MaxFrags)
    /\ fl_flag = None
    /\ fl_legacy = None
    /\ IdleOrch /\ IdleEval /\ IdleScore /\ IdleApp

\* Flag(rule=..., message=..., snippet=...) followed by __post_init__
ConstructFlag ==
    /\ fl_flag = None
    /\ \E rule \in { "a", "b" }, snippet \in { PatternNotFound, << >> } :
           fl_flag' = Some(Flag(rule, Concat(fl_frags), snippet))
    /\ UNCHANGED << fl_frags, fl_legacy, orchVars, evalVars, scoreVars,
                    appVars >>

\* the severity branch of RuleEngine.categorize_flags_by_severity for a flag
\* dict with this message
LegacyCategorize ==
    /\ fl_legacy = None
    /\ fl_legacy' = Some(legacy_severity(Concat(fl_frags)))
    /\ UNCHANGED << fl_frags, fl_flag, orchVars, evalVars, scoreVars,
                    appVars >>

NextFlag == ConstructFlag \/ LegacyCategorize

SpecFlag == InitFlag /\ [][NextFlag]_vars

(***************************************************************************)
(* SpecScore: a ScoringService scores a flag list.                         *)
(***************************************************************************)
InitScore ==
    /\ service_args \in [ max_score : MaxScores, severity_weights : SeverityWeights ]
    /\ scoring_service = ScoringService(service_args.max_score,
                                        service_args.severity_weights)
    /\ score_flags \in SeqUpTo(SampleFlags, MaxFlags)
    /\ forensic_score = None
    /\ legacy_score = None
    /\ IdleOrch /\ IdleEval /\ IdleFlag /\ IdleApp

\* scoring_service.calculate_forensic_score(flags)
CalculateForensicScore ==
    /\ forensic_score = None
    /\ forensic_score' = Some(calculate_forensic_score(scoring_service, score_flags))
    /\ UNCHANGED << service_args, scoring_service, score_flags, legacy_score,
                    orchVars, evalVars, flagVars, appVars >>

\* RuleEngine.calculate_forensic_score(flags) on the same flags
LegacyCalculateForensicScore ==
    /\ legacy_score = None
    /\ legacy_score' = Some(legacy_calculate_forensic_score(score_flags))
    /\ UNCHANGED << service_args, scoring_service, score_flags, forensic_score,
                    orchVars, evalVars, flagVars, appVars >>

NextScore == CalculateForensicScore \/ LegacyCalculateForensicScore

SpecScore == InitScore /\ [][NextScore]_vars

(***************************************************************************)
(* SpecAnalytics: the analytics of a flag list, by a ScoringService and by *)
(* a Report.                                                               *)
(***************************************************************************)
\* scoring_service.create_analytics(flags)
CreateAnalytics ==
    /\ analytics = None
    /\ analytics' = Some(create_analytics(scoring_service, score_flags))
    /\ UNCHANGED << scoreVars, orchVars, evalVars, flagVars, calls,
                    report_analytics, storeVars >>

\* Report(id, status, flags).calculate_analytics() on the same flags
CalculateAnalytics ==
    /\ report_analytics = None
    /\ report_analytics' = Some(Report_calculate_analytics(score_flags))
    /\ UNCHANGED << scoreVars, orchVars, evalVars, flagVars, calls,
                    analytics, storeVars >>

NextAnalytics == CreateAnalytics \/ CalculateAnalytics

SpecAnalytics == InitScore /\ [][NextAnalytics]_vars

(***************************************************************************)
(* SpecEval: one rule is handed to its handler with a text.                *)
(***************************************************************************)
InitEval ==
    /\ ev_rule \in EvalRules
    /\ ev_text \in EvalTexts
    /\ ev_context = None
    /\ ev_modular = None
    /\ ev_legacy = None
    /\ IdleOrch /\ IdleScore /\ IdleFlag /\ IdleApp

\* handler = self._get_handler_for_rule(rule);
\* handler.process_rule(rule, text, user_context)
ProcessRule ==
    /\ ev_modular = None
    /\ ev_modular' = Some(process_rule(get_handler_for_rule(ev_rule),
                                       ev_rule, ev_text, ev_context))
    /\ UNCHANGED << ev_rule, ev_text, ev_context, ev_legacy,
                    orchVars, scoreVars, flagVars, appVars >>

\* RuleEngine._apply_rule(rule, text) as check_text calls it, or
\* RuleEngine._apply_rule_with_context(rule, text, user_context) as
\* check_text_with_context calls it
ApplyRule ==
    /\ ev_legacy = None
    /\ ev_legacy' = Some(IF ev_context = None THEN apply_rule(ev_rule, ev_text)
                         ELSE apply_rule_with_context(ev_rule, ev_text,
                                                      Val(ev_context)))
    /\ UNCHANGED << ev_rule, ev_text, ev_context, ev_modular,
                    orchVars, scoreVars, flagVars, appVars >>

NextEval == ProcessRule \/ ApplyRule

SpecEval == InitEval /\ [][NextEval]_vars

(***************************************************************************)
(* Spec: the orchestrators.  A RuleEngineService reads the rule file on    *)
(* every analyze_text call; a legacy RuleEngine read it when it was        *)
(* constructed, which fails when the file does not load, so its entry      *)
(* points exist only when the file loads.  One call is in progress at a    *)
(* time; its loop advances one rule per step.                              *)
(***************************************************************************)
Modular == { "analyze_text", "analyze_with_context" }
Legacy  == { "check_text", "check_text_with_context" }
Entries == Modular \cup Legacy

\* a user context whose expected price differs from the documents' by more
\* than the tolerance, and one whose expected price is the documents'
MismatchContext ==
    [ expected_purchase_price |-> Some(Amount(4000)),
      expected_loan_amount |-> None,
      promised_zero_closing_costs |-> FALSE,
      builder_promised_to_cover_title_fees |-> FALSE,
      builder_promised_to_cover_escrow_fees |-> FALSE,
      used_builders_preferred_lender |-> FALSE,
      builder_name |-> << >>,
      had_buyer_agent |-> FALSE ]
MatchContext ==
    [ MismatchContext EXCEPT !.expected_purchase_price = Some(Amount(5000)) ]

\* the user_context arguments each entry point is called with
CallContexts(e) ==
    CASE e = "analyze_text" -> { None, Some(MismatchContext), Some(MatchContext) }
      [] e = "analyze_with_context" -> { Some(MismatchContext) }
      [] e = "check_text" -> { None }
      [] e = "check_text_with_context" -> { Some(MismatchContext) }

\* the entries of the rule files: two rules of different kinds named
\* "fee", a rule whose pattern does not compile, a disabled rule, a context
\* rule and an entry of an unknown type
FeeThreshold ==
    [ BaseRule EXCEPT !.name = "fee", !.type = NUMERIC_THRESHOLD,
                      !.message = ValueMessage, !.pattern = "total:(#)",
                      !.threshold = Some(Amount(5000)), !.operator = ">" ]
FeePresence ==
    [ BaseRule EXCEPT !.name = "fee", !.type = REGEX_PRESENCE,
                      !.message = << "f", "e", "e", " ", "f", "r", "a", "u", "d" >>,
                      !.pattern = "total:#" ]
BrokenPattern ==
    [ BaseRule EXCEPT !.name = "broken", !.type = REGEX_PRESENCE,
                      !.pattern = BadPattern ]
DisabledAbsence ==
    [ BaseRule EXCEPT !.name = "no_loan", !.type = REGEX_ABSENCE,
                      !.message = << "W", "a", "r", "n", "i", "n", "g" >>,
                      !.pattern = "loan:(#)", !.enabled = FALSE ]
PriceMismatch ==
    [ BaseRule EXCEPT !.name = "price", !.type = CONTEXT_COMPARISON,
                      !.message = << "{document_price}", " ", "{expected_price}" >>,
                      !.comparison_type = "price_mismatch" ]
UnknownType ==
    [ BaseRule EXCEPT !.name = "odd", !.type = "bogus", !.pattern = "total:#" ]

RulePool == { FeeThreshold, FeePresence, BrokenPattern, DisabledAbsence,
              PriceMismatch, UnknownType }

\* the rule files: one that does not load, and every list of at most
\* MaxRules entries
Configs ==
    { [ exists |-> FALSE, rules |-> << >> ] }
    \cup { [ exists |-> TRUE, rules |-> rs ] : rs \in SeqUpTo(RulePool, MaxRules) }

\* the documents: two totals over the threshold; a price and a total; a
\* loan line only
OrchTexts ==
    { << Item("Total", V5000_01), Item("TOTAL", V5000_01) >>,
      << Item("price", V5000), Item("Total", V5000_01) >>,
      << Item("LOAN", V5000) >> }

\* RulesLoader.load_rules raises: the file does not exist, or an entry is
\* not a mapping, for which the warning of the inner except clause
\* (rule_data.get('name', 'unknown')) raises in its turn and reaches the
\* outer except clause
load_rules_raises(cfg) ==
    \/ ~cfg.exists
    \/ \E k \in 1..Len(cfg.rules) : ~cfg.rules[k].mapping

\* RulesLoader.load_rules when it returns: the entries Rule.from_dict
\* accepts, in file order
load_rules(cfg) == SelectSeq(cfg.rules, from_dict_ok)

\* RulesLoader.get_enabled_rules
get_enabled_rules(cfg) == SelectSeq(load_rules(cfg), LAMBDA rule : rule.enabled)

\* the places in the file of the rules get_enabled_rules returns
enabled_positions(cfg) ==
    SelectSeq([k \in 1..Len(cfg.rules) |-> k],
              LAMBDA k : from_dict_ok(cfg.rules[k]) /\ cfg.rules[k].enabled)

\* the skip test altered: no rule is ever skipped
already_flagged_Never(rule_name, flagged) == FALSE

\* `if rule.name in flagged_rules: continue`
already_flagged(rule_name, flagged) == rule_name \in flagged

\* the except clause altered: the exception is not caught
caught_Never(exc) == FALSE

\* `except Exception as e`: every exception of the evaluators is caught
caught(exc) == TRUE

\* flags.append altered: the flag is put in front
append_flag_Front(fs, flag) == << flag >> \o fs

\* flags.append(rule_flags[0])
append_flag(fs, flag) == Append(fs, flag)

\* `flagged_rules = set()` altered: the set of the previous call is kept
new_flagged_rules_Kept(previous) == previous

\* `flagged_rules = set()` at the start of a call
new_flagged_rules(previous) == {}

\* flagged_rules.add altered: the name is not recorded
mark_flagged_Unmarked(flagged, rule_name) == flagged

\* flagged_rules.add(rule.name)
mark_flagged(flagged, rule_name) == flagged \cup { rule_name }

\* the evaluation of one rule by entry point e: the handler of the rule
\* (none found: no flags), _apply_rule or _apply_rule_with_context
evaluate(e, rule, t, context) ==
    CASE e \in Modular ->
             IF get_handler_for_rule(rule) = Missing THEN Returned(<< >>)
             ELSE process_rule(get_handler_for_rule(rule), rule, t, context)
      [] e = "check_text" -> apply_rule(rule, t)
      [] e = "check_text_with_context" ->
             apply_rule_with_context(rule, t, Val(context))

\* the selection altered: the first flag is kept whatever its message
pick_flag_First(e, rule_flags) == Head(rule_flags)

\* the flag an entry point keeps of a non-empty rule_flags: the first, or
\* for check_text_with_context the first context-enhanced one if any
pick_flag(e, rule_flags) ==
    IF e = "check_text_with_context" /\ context_enhanced(rule_flags) # << >>
    THEN Head(context_enhanced(rule_flags))
    ELSE Head(rule_flags)

Init ==
    /\ config \in Configs
    /\ pc = "idle"
    /\ entry = ""
    /\ text = << >>
    /\ user_context = None
    /\ rules = << >>
    /\ i = 0
    /\ flags = << >>
    /\ flagged_rules = {}
    /\ positions = << >>
    /\ dispatched = {}
    /\ origin = << >>
    /\ memo = None
    /\ IdleEval /\ IdleScore /\ IdleFlag /\ IdleApp

\* the start of entry point e on text t with user context c: the locals are
\* initialised and the rule list is obtained (analyze_with_context calls
\* analyze_text); when load_rules raises, get_enabled_rules raises out of
\* analyze_text
StartCall(e, t, c) ==
    /\ e \in Legacy => config.exists
    /\ entry' = e
    /\ text' = t
    /\ user_context' = c
    /\ flags' = << >>
    /\ flagged_rules' = new_flagged_rules(flagged_rules)
    /\ dispatched' = {}
    /\ origin' = << >>
    /\ IF e \in Modular /\ load_rules_raises(config)
       THEN /\ pc' = "raised"
            /\ rules' = << >>
            /\ positions' = << >>
            /\ i' = 0
       ELSE /\ pc' = "loop"
            /\ rules' = IF e \in Modular THEN get_enabled_rules(config)
                        ELSE config.rules
            /\ positions' = IF e \in Modular THEN enabled_positions(config)
                            ELSE [k \in 1..Len(config.rules) |-> k]
            /\ i' = 1
    /\ memo' = IF memo # None /\ << e, t, c >> # Val(memo).call
               THEN Some([ Val(memo) EXCEPT !.other = TRUE ])
               ELSE memo
    /\ UNCHANGED << config, evalVars, scoreVars, flagVars, appVars >>

\* an entry point is called
Call ==
    /\ pc \in { "idle", "returned", "raised" }
    /\ \E e \in Entries, t \in OrchTexts :
         \E c \in CallContexts(e) : StartCall(e, t, c)

\* one iteration of the loop of RuleEngineService.analyze_text
AnalyzeTextStep ==
    /\ pc = "loop"
    /\ entry \in Modular
    /\ i <= Len(rules)
    /\ LET rule    == rules[i]
           handler == get_handler_for_rule(rule)
           result  == evaluate(entry, rule, text, user_context)
       IN  IF already_flagged(rule.name, flagged_rules)
           THEN /\ i' = i + 1
                /\ UNCHANGED << pc, flags, flagged_rules, dispatched, origin >>
           ELSE /\ dispatched' = IF handler = Missing THEN dispatched
                                 ELSE dispatched \cup { positions[i] }
                /\ IF result.exc # "none" /\ ~caught(result.exc)
                   THEN /\ pc' = "raised"
                        /\ UNCHANGED << i, flags, flagged_rules, origin >>
                   ELSE /\ pc' = pc
                        /\ i' = i + 1
                        /\ IF result.exc = "none" /\ result.flags # << >>
                           THEN /\ flags' = append_flag(flags, Head(result.flags))
                                /\ flagged_rules' = mark_flagged(flagged_rules, rule.name)
                                /\ origin' = append_flag(origin, positions[i])
                           ELSE UNCHANGED << flags, flagged_rules, origin >>
    /\ UNCHANGED << config, entry, text, user_context, rules, positions, memo,
                    evalVars, scoreVars, flagVars, appVars >>

\* one iteration of the loop of RuleEngine.check_text or
\* RuleEngine.check_text_with_context: the whole body is inside the try.
\* For an entry that is not a mapping rule.get raises AttributeError in the
\* try and again in the print of the except clause, out of the call.
CheckTextStep ==
    /\ pc = "loop"
    /\ entry \in Legacy
    /\ i <= Len(rules)
    /\ LET rule   == rules[i]
           result == evaluate(entry, rule, text, user_context)
       IN  IF ~rule.mapping
           THEN /\ pc' = "raised"
                /\ UNCHANGED << i, flags, flagged_rules, dispatched, origin >>
           ELSE /\ pc' = pc
                /\ i' = i + 1
                /\ IF rule.name \in flagged_rules
                   THEN UNCHANGED << flags, flagged_rules, dispatched, origin >>
                   ELSE /\ dispatched' = IF rule.type \in RuleType
                                         THEN dispatched \cup { positions[i] }
                                         ELSE dispatched
                        /\ IF result.exc = "none" /\ result.flags # << >>
                           THEN /\ flags' = Append(flags, pick_flag(entry, result.flags))
                                /\ flagged_rules' = mark_flagged(flagged_rules, rule.name)
                                /\ origin' = Append(origin, positions[i])
                           ELSE UNCHANGED << flags, flagged_rules, origin >>
    /\ UNCHANGED << config, entry, text, user_context, rules, positions, memo,
                    evalVars, scoreVars, flagVars, appVars >>

\* `return flags`
Return ==
    /\ pc = "loop"
    /\ i > Len(rules)
    /\ pc' = "returned"
    /\ UNCHANGED << config, entry, text, user_context, rules, i, flags,
                    flagged_rules, positions, dispatched, origin, memo,
                    evalVars, scoreVars, flagVars, appVars >>

\* the caller keeps the arguments and the result of a call that returned
Remember ==
    /\ pc = "returned"
    /\ memo = None
    /\ memo' = Some([ call |-> << entry, text, user_context >>, flags |-> flags,
                      other |-> FALSE ])
    /\ UNCHANGED << config, pc, entry, text, user_context, rules, i, flags,
                    flagged_rules, positions, dispatched, origin,
                    evalVars, scoreVars, flagVars, appVars >>

Next == Call \/ AnalyzeTextStep \/ CheckTextStep \/ Return \/ Remember

Spec == Init /\ [][Next]_vars

(***************************************************************************)
(* SpecHandlers: one rule of any kind is handed, with a text and an        *)
(* optional user context, to its handler and to the legacy check.          *)
(***************************************************************************)
\* amounts and names as the documents print them
V420000 == << "4", "2", "0", ",", "0", "0", "0" >>
V421000 == << "4", "2", "1", ",", "0", "0", "0" >>
V380000 == << "3", "8", "0", ",", "0", "0", "0" >>
V379000 == << "3", "7", "9", ",", "0", "0", "0" >>
V400000 == << "4", "0", "0", ",", "0", "0", "0", ".", "0", "0" >>
V100    == << "1", "0", "0" >>
V100_01 == << "1", "0", "0", ".", "0", "1" >>
V500    == << "5", "0", "0", ".", "0", "0" >>
V500_01 == << "5", "0", "0", ".", "0", "1" >>
NameAbcBuilder   == << "A", "B", "C", " ", "B", "U", "I", "L", "D", "E", "R", " ", "C", "O", "R", "P", "O", "R", "A", "T", "I", "O", "N" >>
NameAbcMortgage  == << "A", "B", "C", " ", "M", "O", "R", "T", "G", "A", "G", "E", " ", "S", "O", "L", "U", "T", "I", "O", "N", "S" >>
NameUnrelated    == << "U", "N", "R", "E", "L", "A", "T", "E", "D", " ", "B", "A", "N", "K" >>
NameAbcBuilderLc == << " ", "a", "b", "c", " ", "b", "u", "i", "l", "d", "e", "r", " ", "c", "o", "r", "p", "o", "r", "a", "t", "i", "o", "n", " " >>

\* user contexts: an expected purchase price, an expected loan amount, a
\* promise of zero closing costs
ExpectedPrice ==
    [ MismatchContext EXCEPT !.expected_purchase_price = Some(Amount(400000)) ]
ExpectedLoan ==
    [ MismatchContext EXCEPT !.expected_purchase_price = None,
                             !.expected_loan_amount = Some(Amount(400000)) ]
PromisedZero ==
    [ MismatchContext EXCEPT !.expected_purchase_price = None,
                             !.promised_zero_closing_costs = TRUE ]

Case(rule, t, context) == [ rule |-> rule, text |-> t, context |-> context ]

\* regex_absence entries and the texts they are evaluated on
AbsenceRules ==
    { [ BaseRule EXCEPT !.name = "no_loan", !.type = REGEX_ABSENCE,
                        !.message = << "W", "a", "r", "n", "i", "n", "g" >>,
                        !.pattern = pat ] :
          pat \in { "loan:(#)", "total:#", "", BadPattern, Missing } }
AbsenceTexts ==
    { << >>,
      << Item("LOAN", V5000) >>,
      << Item("loan", V5000) >>,
      << Item("Total", V5000_01) >>,
      << Item("Total", V5000_01), Item("LOAN", V5000) >>,
      << Item("price", V5000), Item("Total", V5000) >> }
AbsenceCases ==
    { Case(rule, t, None) : rule \in AbsenceRules, t \in AbsenceTexts }

\* context_comparison entries: the comparison types and the tolerance keys
\* of both engines, with the tolerance 5 given or left to its default
ComparisonRules ==
    { [ BaseRule EXCEPT !.name = "amount_check", !.type = CONTEXT_COMPARISON,
                        !.message = << "{actual}", " ", "{expected}" >>,
                        !.comparison_type = ct, !.pattern = pat,
                        !.tolerance_percentage = tol, !.tolerance_percent = tol ] :
          ct \in { "purchase_price", "loan_amount", "price_mismatch",
                   "loan_amount_mismatch" },
          pat \in { "price:(#)", "loan:(#)" },
          tol \in { None, Some(Amount(5)) } }
ComparisonTexts ==
    { << Item(l, v) >> : l \in { "price", "loan" },
                         v \in { V420000, V421000, V380000, V379000, V400000 } }
ComparisonCases ==
    { Case(rule, t, c) : rule \in ComparisonRules, t \in ComparisonTexts,
                         c \in { None, Some(ExpectedPrice), Some(ExpectedLoan) } }

\* the promised-zero-closing-costs checks: the broken_promise entry of the
\* handlers and the entry the legacy engine knows by its name
PromiseRules ==
    { [ BaseRule EXCEPT !.name = "zero_closing_costs_deception",
                        !.type = CONTEXT_COMPARISON,
                        !.message = << "{amount}" >>,
                        !.comparison_type = "broken_promise",
                        !.promise_type = "zero_closing_costs",
                        !.tolerance_percentage = tol, !.tolerance_percent = tol ] :
          tol \in { None, Some(Amount(5)) } }
    \cup
    { [ BaseRule EXCEPT !.name = "zero_closing_costs_deception",
                        !.type = REGEX_ABSENCE,
                        !.message = << "W", "a", "r", "n", "i", "n", "g" >>,
                        !.pattern = "costs:(#)" ] }
PromiseTexts ==
    { << Item("costs", v) >> : v \in { VZero, V100, V100_01, V500, V500_01, VBad } }
    \cup { << Item("costs", V100), Item("costs", V500_01) >>,
           << Item("price", V500_01) >> }
PromiseCases ==
    { Case(rule, t, c) : rule \in PromiseRules, t \in PromiseTexts,
                         c \in { None, Some(PromisedZero), Some(ExpectedPrice) } }

\* cross_reference_pattern entries: a seller name against a lender and an
\* insurer, with and without fuzzy matching, and an entry with the
\* reference_pattern key
SecondaryPatterns ==
    << [ pattern |-> "lender:(#)", service |-> "lender" ],
       [ pattern |-> "insurer:(#)", service |-> "insurance" ] >>
CrossReferenceRules ==
    { [ BaseRule EXCEPT !.name = "captive", !.type = CROSS_REFERENCE_PATTERN,
                        !.message = << "{primary}", ":", "{services}" >>,
                        !.primary_pattern = "seller:(#)",
                        !.secondary_patterns = SecondaryPatterns,
                        !.fuzzy_match = fm, !.reference_pattern = ref ] :
          fm \in { Missing, "True", "False" }, ref \in { Missing, "lender:(#)" } }
CrossReferenceTexts ==
    { << Item("seller", NameAbcBuilder), Item("lender", NameAbcMortgage) >>,
      << Item("seller", NameAbcBuilder), Item("lender", NameUnrelated) >>,
      << Item("seller", NameAbcBuilder), Item("lender", NameAbcBuilderLc) >>,
      << Item("seller", NameAbcBuilder), Item("lender", NameUnrelated),
         Item("insurer", NameAbcMortgage) >>,
      << Item("seller", NameAbcBuilder), Item("lender", NameAbcMortgage),
         Item("insurer", NameAbcBuilder) >>,
      << Item("seller", NameAbcBuilder) >>,
      << Item("lender", NameAbcMortgage) >> }
CrossReferenceCases ==
    { Case(rule, t, None) : rule \in CrossReferenceRules, t \in CrossReferenceTexts }

\* compound_rule entries: lists of the three kinds of sub-conditions under
\* each logic
NumericTotal ==
    [ BaseCondition EXCEPT !.type = "numeric_threshold", !.pattern = "total:(#)",
                           !.threshold = Some(Amount(5000)), !.operator = ">" ]
PresenceLoan ==
    [ BaseCondition EXCEPT !.type = "regex_presence", !.pattern = "loan:(#)" ]
NumericLoan ==
    [ BaseCondition EXCEPT !.type = "numeric_threshold", !.pattern = "loan:(#)" ]
AbsencePrice ==
    [ BaseCondition EXCEPT !.type = "regex_absence", !.pattern = "price:(#)" ]
ConditionLists ==
    { << >>,
      << NumericTotal >>,
      << NumericTotal, PresenceLoan >>,
      << PresenceLoan, NumericTotal >>,
      << NumericTotal, NumericLoan >>,
      << NumericLoan, NumericTotal >>,
      << AbsencePrice, NumericTotal >>,
      << NumericTotal, AbsencePrice >> }
CompoundRules ==
    { [ BaseRule EXCEPT !.name = "costly_loan", !.type = COMPOUND_RULE,
                        !.message = << "f", "r", "a", "u", "d" >>,
                        !.conditions = cs, !.logic = lg ] :
          cs \in ConditionLists, lg \in { Missing, "AND", "OR", "or" } }
CompoundTexts ==
    { << >>,
      << Item("LOAN", V5000) >>,
      << Item("Total", V5000_01) >>,
      << Item("Total", V5000_01), Item("LOAN", V5000) >>,
      << Item("Total", V4999_99), Item("LOAN", V5000) >>,
      << Item("price", V5000), Item("LOAN", V5000) >>,
      << Item("Total", VBad), Item("LOAN", V5000) >> }
CompoundCases ==
    { Case(rule, t, None) : rule \in CompoundRules, t \in CompoundTexts }

\* one entry of each kind whose pattern keys are absent or empty, with
\* every other key the kind reads present; the compound entry has one
\* regex_presence sub-condition with that pattern
UnpatternedRules ==
    { [ BaseRule EXCEPT !.name = "unpatterned", !.type = ty,
                        !.pattern = pat, !.threshold = Some(Amount(5000)),
                        !.numerator_pattern = pat,
                        !.denominator_pattern = "loan:(#)",
                        !.comparison_type = ct,
                        !.primary_pattern = pat,
                        !.reference_pattern = "lender:(#)",
                        !.secondary_patterns = SecondaryPatterns,
                        !.conditions =
                            << [ PresenceLoan EXCEPT !.pattern = pat ] >> ] :
          ty \in RuleType, pat \in { "", Missing },
          ct \in { "price_mismatch", "purchase_price" } }
UnpatternedTexts ==
    { << >>,
      << Item("price", V421000) >>,
      << Item("Total", V5000_01), Item("LOAN", V5000) >>,
      << Item("seller", NameAbcBuilder), Item("lender", NameAbcMortgage) >> }
\* user contexts whose expected values are 0, and missing
ExpectedZero ==
    [ MismatchContext EXCEPT !.expected_purchase_price = Some(0),
                             !.expected_loan_amount = Some(0) ]
ExpectedNothing ==
    [ MismatchContext EXCEPT !.expected_purchase_price = None,
                             !.expected_loan_amount = None ]

\* the comparisons against such a context: every comparison entry, and the
\* entries with a pattern that does not compile, with no capture group and
\* with no pattern, on documents that hold the value, 0 and no number
ZeroExpectedRules ==
    ComparisonRules
    \cup { [ rule EXCEPT !.pattern = pat ] :
              rule \in { r \in ComparisonRules : r.tolerance_percent = None },
              pat \in { BadPattern, "price:#", Missing } }
ZeroExpectedTexts ==
    { << Item(l, v) >> : l \in { "price", "loan" }, v \in { V400000, VZero, VBad } }
ZeroExpectedCases ==
    { Case(rule, t, c) : rule \in ZeroExpectedRules, t \in ZeroExpectedTexts,
                         c \in { Some(ExpectedZero), Some(ExpectedNothing) } }

UnpatternedCases ==
    { Case(rule, t, c) : rule \in UnpatternedRules, t \in UnpatternedTexts,
                         c \in { None, Some(ExpectedPrice) } }

HandlerCases ==
    AbsenceCases \cup ComparisonCases \cup PromiseCases \cup CrossReferenceCases
    \cup CompoundCases

InitHandlers ==
    /\ \E case \in HandlerCases :
          /\ ev_rule = case.rule
          /\ ev_text = case.text
          /\ ev_context = case.context
    /\ ev_modular = None
    /\ ev_legacy = None
    /\ IdleOrch /\ IdleScore /\ IdleFlag /\ IdleApp

SpecHandlers == InitHandlers /\ [][NextEval]_vars

(***************************************************************************)
(* SpecGuards: single handler calls on entries without a pattern and on    *)
(* comparisons against an expected value that is 0 or missing.             *)
(***************************************************************************)
GuardCases == UnpatternedCases \cup ZeroExpectedCases \cup ComparisonCases

InitGuards ==
    /\ \E case \in GuardCases :
          /\ ev_rule = case.rule
          /\ ev_text = case.text
          /\ ev_context = case.context
    /\ ev_modular = None
    /\ ev_legacy = None
    /\ IdleOrch /\ IdleScore /\ IdleFlag /\ IdleApp

SpecGuards == InitGuards /\ [][NextEval]_vars

(***************************************************************************)
(* SpecKinds: the orchestrators on rule files that mix the kinds: an       *)
(* absence rule and a presence rule of one name, the rule the legacy       *)
(* engine enhances when zero closing costs were promised, two context      *)
(* comparisons, an entry of an unknown type and an entry that is not a     *)
(* mapping.  The entry points are called with and without a user context.  *)
(***************************************************************************)
AbsenceFee ==
    [ BaseRule EXCEPT !.name = "fee", !.type = REGEX_ABSENCE,
                      !.message = << "W", "a", "r", "n", "i", "n", "g" >>,
                      !.pattern = "loan:(#)" ]
Deception ==
    [ BaseRule EXCEPT !.name = "zero_closing_costs_deception",
                      !.type = REGEX_PRESENCE,
                      !.message = << "c", "l", "o", "s", "i", "n", "g" >>,
                      !.pattern = "costs:(#)" ]
PriceCheck ==
    [ BaseRule EXCEPT !.name = "fee", !.type = CONTEXT_COMPARISON,
                      !.message = << "{actual}", " ", "{expected}" >>,
                      !.comparison_type = "purchase_price",
                      !.pattern = "price:(#)" ]
PromiseCheck ==
    [ BaseRule EXCEPT !.name = "zero_closing_costs_deception",
                      !.type = CONTEXT_COMPARISON,
                      !.message = << "{amount}" >>,
                      !.comparison_type = "broken_promise",
                      !.promise_type = "zero_closing_costs" ]
NotAMapping ==
    [ BaseRule EXCEPT !.mapping = FALSE, !.name = Missing, !.type = Missing ]

KindPool == { AbsenceFee, FeePresence, Deception, PriceCheck, PromiseCheck,
              UnknownType, NotAMapping }

\* the rule files: every list of at most MaxRules entries
KindConfigs ==
    { [ exists |-> TRUE, rules |-> rs ] : rs \in SeqUpTo(KindPool, MaxRules) }

\* the documents: closing costs over 500 and a total; the same with a loan
\* line put in; a price, closing costs of 100 and a total
KindTexts ==
    { << Item("costs", V500_01), Item("Total", V5000_01) >>,
      << Item("costs", V500_01), Item("LOAN", V5000), Item("Total", V5000_01) >>,
      << Item("price", V421000), Item("costs", V100), Item("Total", V5000_01) >> }

\* the user_context arguments each entry point is called with
KindContexts(e) ==
    CASE e = "analyze_text" -> { None, Some(PromisedZero) }
      [] e = "analyze_with_context" -> { Some(ExpectedPrice) }
      [] e = "check_text" -> { None }
      [] e = "check_text_with_context" -> { Some(PromisedZero), Some(ExpectedPrice) }

InitKinds ==
    /\ config \in KindConfigs
    /\ pc = "idle"
    /\ entry = ""
    /\ text = << >>
    /\ user_context = None
    /\ rules = << >>
    /\ i = 0
    /\ flags = << >>
    /\ flagged_rules = {}
    /\ positions = << >>
    /\ dispatched = {}
    /\ origin = << >>
    /\ memo = None
    /\ IdleEval /\ IdleScore /\ IdleFlag /\ IdleApp

\* an entry point is called
CallKinds ==
    /\ pc \in { "idle", "returned", "raised" }
    /\ \E e \in Entries, t \in KindTexts :
         \E c \in KindContexts(e) : StartCall(e, t, c)

NextKinds == CallKinds \/ AnalyzeTextStep \/ CheckTextStep \/ Return

SpecKinds == InitKinds /\ [][NextKinds]_vars

(***************************************************************************)
(* SpecCalls: calls of the entry points that run at the same time on one   *)
(* engine, their loop iterations interleaved.  The engine (its rule file   *)
(* and, for the legacy engine, self.rules) is shared; text, user_context,  *)
(* rules and the loop index are locals of a call.  flags and flagged_rules *)
(* are objects a call creates and then refers to: calls[c].flags and       *)
(* calls[c].flagged_rules hold the list and the set created by call c, and *)
(* flags_cell and flagged_cell tell which of them the code of call c       *)
(* refers to.  The value a call returns is the list object, result.        *)
(***************************************************************************)
\* the number of calls that run at the same time
NumCalls == 2
CallIds == 1..NumCalls

\* the rule files of the shared engine
CallConfigs ==
    { [ exists |-> TRUE, rules |-> rs ] :
          rs \in { << FeeThreshold, FeePresence >>,
                   << FeePresence, PriceMismatch >>,
                   << BrokenPattern, FeeThreshold >>,
                   << DisabledAbsence, FeePresence >>,
                   << FeePresence, NotAMapping >> } }

\* the documents of the calls: a total over the threshold, a total at the
\* threshold, a price
CallTexts ==
    { << Item("Total", V5000_01) >>,
      << Item("Total", V5000) >>,
      << Item("price", V5000) >> }

\* the entry points called at the same time and their user contexts
CallEntries == { "analyze_text", "check_text_with_context" }
CallUserContexts(e) ==
    CASE e = "analyze_text" -> { None, Some(MismatchContext) }
      [] e = "check_text_with_context" -> { Some(MismatchContext) }

\* a call that has not started
IdleCall ==
    [ pc |-> "idle", entry |-> "", text |-> << >>, user_context |-> None,
      rules |-> << >>, i |-> 0, flags |-> << >>, flagged_rules |-> {},
      result |-> 0 ]

\* `flags = []` altered: one list at module level serves every call
flags_cell_Shared(c) == 1

\* `flags = []` in the entry point: the list call c appends to and returns
\* is the list call c created
flags_cell(c) == c

\* `flagged_rules = set()` altered: one set at module level serves every
\* call
flagged_cell_Shared(c) == 1

\* `flagged_rules = set()` in the entry point: the set call c tests and
\* adds to is the set call c created
flagged_cell(c) == c

\* what the loop body makes of the result of the evaluator of a rule, given
\* the names flagged so far: whether an exception leaves the call, and the
\* flag the iteration appends, if any
loop_outcome(e, rule, result, flagged) ==
    IF e \in Modular
    THEN IF already_flagged(rule.name, flagged)
         THEN [ raised |-> FALSE, flag |-> None ]
         ELSE IF result.exc # "none"
         THEN [ raised |-> ~caught(result.exc), flag |-> None ]
         ELSE IF result.flags # << >>
         THEN [ raised |-> FALSE, flag |-> Some(Head(result.flags)) ]
         ELSE [ raised |-> FALSE, flag |-> None ]
    ELSE IF rule.name \in flagged THEN [ raised |-> FALSE, flag |-> None ]
    ELSE IF result.exc = "none" /\ result.flags # << >>
    THEN [ raised |-> FALSE, flag |-> Some(pick_flag(e, result.flags)) ]
    ELSE [ raised |-> FALSE, flag |-> None ]

\* one iteration of the loop of an entry point: whether it raised, and the
\* flag it appended; an entry of the legacy rule list that is no mapping
\* raises at rule.get
loop_iteration(e, rule, t, context, flagged) ==
    IF e \notin Modular /\ ~rule.mapping
    THEN [ raised |-> TRUE, flag |-> None ]
    ELSE loop_outcome(e, rule, evaluate(e, rule, t, context), flagged)

\* the rule list an entry point iterates over
call_rules(e, cfg) ==
    IF e \in Modular THEN get_enabled_rules(cfg) ELSE cfg.rules

InitCalls ==
    /\ config \in CallConfigs
    /\ calls = [ c \in CallIds |-> IdleCall ]
    /\ analytics = None
    /\ report_analytics = None
    /\ reports_store = {}
    /\ issued = 0
    /\ uploads = << >>
    /\ deleted = {}
    /\ response = None
    /\ pc = "off"
    /\ entry = ""
    /\ text = << >>
    /\ user_context = None
    /\ rules = << >>
    /\ i = 0
    /\ flags = << >>
    /\ flagged_rules = {}
    /\ positions = << >>
    /\ dispatched = {}
    /\ origin = << >>
    /\ memo = None
    /\ IdleEval /\ IdleScore /\ IdleFlag

\* call c enters an entry point: `flags = []`, `flagged_rules = set()`, and
\* the rule list is obtained (get_enabled_rules raises out of analyze_text
\* when load_rules raises)
EnterCall(c) ==
    /\ calls[c].pc \in { "idle", "returned", "raised" }
    /\ \E e \in CallEntries, t \in CallTexts :
         \E context \in CallUserContexts(e) :
            LET raises == e \in Modular /\ load_rules_raises(config)
            IN  calls' =
                  [ d \in CallIds |->
                      [ calls[d] EXCEPT
                          !.pc = IF d # c THEN @
                                 ELSE IF raises THEN "raised" ELSE "loop",
                          !.entry = IF d = c THEN e ELSE @,
                          !.text = IF d = c THEN t ELSE @,
                          !.user_context = IF d = c THEN context ELSE @,
                          !.rules = IF d # c THEN @
                                    ELSE IF raises THEN << >>
                                    ELSE call_rules(e, config),
                          !.i = IF d # c THEN @ ELSE IF raises THEN 0 ELSE 1,
                          !.result = IF d = c THEN 0 ELSE @,
                          !.flags = IF d = flags_cell(c) THEN << >> ELSE @,
                          !.flagged_rules =
                              IF d = flagged_cell(c) THEN {} ELSE @ ] ]
    /\ UNCHANGED << orchVars, evalVars, scoreVars, flagVars, analytics,
                    report_analytics, storeVars >>

\* one iteration of the loop of call c
IterateCall(c) ==
    /\ calls[c].pc = "loop"
    /\ calls[c].i <= Len(calls[c].rules)
    /\ \E step \in { loop_iteration(calls[c].entry, calls[c].rules[calls[c].i],
                                     calls[c].text, calls[c].user_context,
                                     calls[flagged_cell(c)].flagged_rules) } :
          calls' =
             [ d \in CallIds |->
                 [ calls[d] EXCEPT
                     !.pc = IF d = c /\ step.raised THEN "raised" ELSE @,
                     !.i = IF d = c /\ ~step.raised THEN @ + 1 ELSE @,
                     !.flags = IF d = flags_cell(c) /\ step.flag # None
                               THEN Append(@, Val(step.flag)) ELSE @,
                     !.flagged_rules =
                         IF d = flagged_cell(c) /\ step.flag # None
                         THEN mark_flagged(@, calls[c].rules[calls[c].i].name)
                         ELSE @ ] ]
    /\ UNCHANGED << orchVars, evalVars, scoreVars, flagVars, analytics,
                    report_analytics, storeVars >>

\* `return flags` of call c: the caller receives the list object
ReturnCall(c) ==
    /\ calls[c].pc = "loop"
    /\ calls[c].i > Len(calls[c].rules)
    /\ calls' = [ calls EXCEPT ![c].pc = "returned",
                               ![c].result = flags_cell(c) ]
    /\ UNCHANGED << orchVars, evalVars, scoreVars, flagVars, analytics,
                    report_analytics, storeVars >>

NextCalls ==
    \/ \E c \in CallIds : EnterCall(c)
    \/ \E c \in CallIds : IterateCall(c)
    \/ \E c \in CallIds : ReturnCall(c)

SpecCalls == InitCalls /\ [][NextCalls]_vars

(***************************************************************************)
(* Properties of the orchestrators (Spec).                                 *)
(***************************************************************************)
\* the elements of a sequence
Range(seq) == { seq[k] : k \in 1..Len(seq) }

\* whether the evaluator of the rule at place p of the loop returns flags
Flagging(p) ==
    LET result == evaluate(entry, rules[p], text, user_context)
    IN  result.exc = "none" /\ result.flags # << >>

\* C1: the flag list of a call never holds two flags with the same rule
\* name, whatever the text, the rule list (two rules of different kinds may
\* share a name and both match) and the context, and however many matches
\* an evaluator produced.
C1_OneFlagPerRuleName ==
    \A a, b \in 1..Len(flags) : a # b => flags[a].rule # flags[b].rule

\* analyze_text returned one flag for two rules named "fee" of different
\* kinds that both match, the first of them with two matches
C1_Witness ==
    /\ pc = "returned"
    /\ entry = "analyze_text"
    /\ config.rules = << FeeThreshold, FeePresence >>
    /\ Len(evaluate(entry, FeeThreshold, text, user_context).flags) = 2
    /\ Len(evaluate(entry, FeePresence, text, user_context).flags) = 1
    /\ Len(flags) = 1
    /\ flags[1].rule = "fee"

C3_FlagOrder ==
    /\ Len(origin) = Len(flags)
    /\ \A k \in 1..Len(flags) :
           /\ origin[k] \in 1..Len(config.rules)
           /\ config.rules[origin[k]].name = flags[k].rule
    /\ \A a, b \in 1..Len(flags) : a < b => origin[a] < origin[b]

\* analyze_text returned two flags, of the first and of the second rule
C3_Witness ==
    /\ pc = "returned"
    /\ entry \in Modular
    /\ Len(flags) = 2
    /\ origin = << 1, 2 >>
    /\ flags[1].rule # flags[2].rule

\* C4: a rule whose enabled field is false is never handed to an evaluator
\* and never contributes a flag, in any of the four entry points.
C4_DisabledNeverEvaluated ==
    /\ \A p \in dispatched : config.rules[p].enabled
    /\ \A k \in 1..Len(origin) : config.rules[origin[k]].enabled

\* C5: two analyze calls with the same text, rule file and context return
\* the same ordered flag list (rule, message, snippet and severity at each
\* place), whatever calls ran in between.
C5_Deterministic ==
    ( /\ pc = "returned"
      /\ memo # None
      /\ Val(memo).call = << entry, text, user_context >> )
    => flags = Val(memo).flags

\* a call returned the flags an earlier call with the same arguments had
\* returned, after a call with other arguments
C5_Witness ==
    /\ pc = "returned"
    /\ memo # None
    /\ Val(memo).call = << entry, text, user_context >>
    /\ Val(memo).other
    /\ Len(flags) = 2
    /\ flags = Val(memo).flags

\* the rule names of a flag list
RuleNames(fs) == { fs[k].rule : k \in 1..Len(fs) }

\* C15: for the same rule file and the same text analysed without context,
\* RuleEngine.check_text and RuleEngineService.analyze_text return the same
\* number of flags and the same set of rule names: a call of one that
\* returned agrees with the remembered call of the other on the same text.
C15_LegacyModularAgree ==
    ( /\ pc = "returned"
      /\ memo # None
      /\ user_context = None
      /\ { entry, Val(memo).call[1] } = { "check_text", "analyze_text" }
      /\ Val(memo).call[2] = text
      /\ Val(memo).call[3] = None )
    => /\ Len(flags) = Len(Val(memo).flags)
       /\ RuleNames(flags) = RuleNames(Val(memo).flags)

(***************************************************************************)
(* Properties of the scoring service (SpecScore).                          *)
(***************************************************************************)
\* the number of flags of a list with the given severity
CountSeverity(fs, severity) ==
    Cardinality({ k \in 1..Len(fs) : fs[k].severity = severity })

\* a max_score and weights that are all non-negative
NonNegativeConfiguration ==
    /\ service_args.max_score >= 0
    /\ service_args.severity_weights # None =>
           \A k \in DOMAIN Val(service_args.severity_weights) :
               Val(service_args.severity_weights)[k] >= 0

C7_ScoreFormula ==
    LET high   == CountSeverity(score_flags, HIGH)
        medium == CountSeverity(score_flags, MEDIUM)
        low    == CountSeverity(score_flags, LOW)
        given  == service_args.severity_weights
        w      == IF given = None THEN [ high |-> 20, medium |-> 10, low |-> 5 ]
                  ELSE Val(given)
        rest   == service_args.max_score
                      - (high * w.high + medium * w.medium + low * w.low)
        legacy_rest == 100 - (high * 20 + medium * 10 + low * 5)
    IN  /\ ( /\ forensic_score # None
             /\ score_flags # << >>
             /\ (given = None \/ DOMAIN Val(given) = { "high", "medium", "low" }) )
            => Val(forensic_score) = IF rest < 0 THEN 0 ELSE rest
        /\ (legacy_score # None /\ score_flags # << >>)
            => Val(legacy_score) = IF legacy_rest < 0 THEN 0 ELSE legacy_rest

\* one flag of each severity under the defaults: 100 - 20 - 10 - 5
C7_Witness ==
    /\ service_args = [ max_score |-> 100, severity_weights |-> None ]
    /\ Len(score_flags) = 3
    /\ CountSeverity(score_flags, HIGH) = 1
    /\ CountSeverity(score_flags, MEDIUM) = 1
    /\ CountSeverity(score_flags, LOW) = 1
    /\ forensic_score = Some(65)

\* C16: for every flag list, RuleEngine.calculate_forensic_score on the
\* flag dicts and ScoringService.calculate_forensic_score, of a service
\* with the default configuration, on the Flag objects built from the same
\* rule, message and snippet return the same score.
C16_LegacyScoreAgrees ==
    ( /\ service_args = [ max_score |-> DefaultMaxScore, severity_weights |-> None ]
      /\ forensic_score # None
      /\ legacy_score # None )
    => Val(forensic_score) = Val(legacy_score)

\* both scorers gave 55 to a high flag, the flag whose message holds a
\* medium keyword before a high one, and a low flag
C16_Witness ==
    /\ service_args = [ max_score |-> DefaultMaxScore, severity_weights |-> None ]
    /\ Len(score_flags) = 3
    /\ score_flags[1].rule = "a"
    /\ score_flags[2].rule = "d"
    /\ score_flags[3].rule = "c"
    /\ forensic_score = Some(55)
    /\ legacy_score = Some(55)

(***************************************************************************)
(* Properties of the analytics (SpecAnalytics).                            *)
(***************************************************************************)
\* the counts of an analytics record add up to its total, and the total is
\* the length of the flag list
CountsAddUp(a) ==
    /\ a.total_flags = Len(score_flags)
    /\ a.high_severity + a.medium_severity + a.low_severity = a.total_flags

C29_ReportAnalyticsAgree ==
    ( /\ service_args = [ max_score |-> DefaultMaxScore, severity_weights |-> None ]
      /\ analytics # None
      /\ report_analytics # None )
    => /\ Val(analytics).exc = "none"
       /\ Val(report_analytics).exc = "none"
       /\ Val(report_analytics).fields = Val(analytics).fields

\* both gave the score 0 and the counts 5/0/0 to five high flags, a list
\* on which the floor of both is reached
C29_Witness ==
    /\ service_args = [ max_score |-> DefaultMaxScore, severity_weights |-> None ]
    /\ Len(score_flags) = MaxFlags
    /\ analytics # None
    /\ report_analytics = analytics
    /\ Val(Val(analytics).fields).forensic_score = 0
    /\ Val(Val(analytics).fields).high_severity = MaxFlags

(***************************************************************************)
(* Properties of Flag construction (SpecFlag).                             *)
(***************************************************************************)
\* fragment a directly followed by fragment b
Adjacent(frags, a, b) ==
    \E k \in 1..(Len(frags) - 1) : frags[k] = a /\ frags[k + 1] = b

\* the severity the keyword tiers assign to a message, read off the
\* fragments it is composed of: a fragment that spells a keyword in any
\* letter case, or two fragments that spell one together
ExpectedSeverity(frags) ==
    LET has(F) == \E k \in 1..Len(frags) : frags[k] \in F
    IN  IF \/ has({ << "C", "R", "I", "T", "I", "C", "A", "L" >>,
                    << "E", "r", "r", "o", "r" >>,
                    << "f", "r", "a", "u", "d" >>,
                    << HighMarker >> })
           \/ Adjacent(frags, << "e", "r", "r" >>, << "o", "r" >>)
        THEN "high"
        ELSE IF \/ has({ << "W", "a", "r", "n", "i", "n", "g" >>,
                         << "D", "A", "N", "G", "E", "R", "O", "U", "S" >>,
                         << "e", "x", "c", "e", "s", "s", "i", "v", "e" >>,
                         << MediumMarker >> })
                \/ Adjacent(frags, << "w", "a", "r", "n" >>, << "i", "n", "g" >>)
        THEN "medium"
        ELSE "low"

\* C8: the severity of a flag depends on its message only, letter case
\* ignored: HIGH when the message contains critical, error, fraud or the
\* high marker, otherwise MEDIUM when it contains warning, dangerous,
\* excessive or the medium marker, otherwise LOW; a message with keywords of
\* both tiers is HIGH.  The legacy engine reads the same severity.
C8_SeverityFromMessage ==
    /\ fl_flag # None =>
           /\ Val(fl_flag).message = Concat(fl_frags)
           /\ Val(fl_flag).severity = ExpectedSeverity(fl_frags)
    /\ fl_legacy # None => Val(fl_legacy) = ExpectedSeverity(fl_frags)

\* a message with a MEDIUM keyword before a HIGH keyword is HIGH
C8_Witness ==
    /\ fl_frags = << << "W", "a", "r", "n", "i", "n", "g" >>,
                     << "f", "r", "a", "u", "d" >> >>
    /\ fl_flag # None
    /\ Val(fl_flag).severity = HIGH

(***************************************************************************)
(* Properties of the numeric handlers (SpecEval).                          *)
(***************************************************************************)
\* the number, in hundredths, each amount of the documents denotes
Denotes(v) ==
    CASE v = V4999_99 -> 499999
      [] v = V5000    -> 500000
      [] v = V5000_01 -> 500001
      [] v = VZero    -> 0

\* the lines of a text with the given label, and the first of them
LinesOf(t, label) == { k \in 1..Len(t) : t[k].label = label }
FirstLine(t, label) ==
    CHOOSE k \in LinesOf(t, label) : \A j \in LinesOf(t, label) : k <= j

\* the comparison an operator string stands for
Compare(a, operator, b) ==
    CASE operator = ">"  -> a > b
      [] operator = "<"  -> a < b
      [] operator = ">=" -> a >= b
      [] operator = "<=" -> a <= b
      [] operator = "==" -> a = b

\* the document label a pattern of the rules matches
LabelOf(pattern) ==
    CASE pattern = "total:(#)" -> "Total"
      [] pattern = "loan:(#)"  -> "LOAN"

\* C9: a numeric_threshold rule with threshold T = 5000 and a single
\* matched value v flags iff v > T under '>' (5000 does not flag, 5000.01
\* flags, 4999.99 does not), iff v < T under '<', and under '>=', '<=' and
\* '==' iff the comparison that includes equality holds.
C9_ThresholdBoundary ==
    ( /\ ev_modular # None
      /\ ev_rule.type = NUMERIC_THRESHOLD
      /\ ev_rule.pattern = "total:(#)"
      /\ ev_rule.threshold # None
      /\ ev_rule.operator \in { ">", "<", ">=", "<=", "==" }
      /\ Cardinality(LinesOf(ev_text, "Total")) = 1
      /\ ev_text[FirstLine(ev_text, "Total")].val # VBad )
    => /\ Val(ev_modular).exc = "none"
       /\ Val(ev_modular).flags # << >>
            <=> Compare(Denotes(ev_text[FirstLine(ev_text, "Total")].val),
                        ev_rule.operator, 500000)
       /\ Len(Val(ev_modular).flags) <= 1

\* a value exactly at the threshold under '>' has been evaluated and did
\* not flag
C9_Witness ==
    /\ ev_modular # None
    /\ ev_rule.type = NUMERIC_THRESHOLD
    /\ ev_rule.pattern = "total:(#)"
    /\ ev_rule.operator = ">"
    /\ ev_rule.threshold = Some(500000)
    /\ ev_text = << Item("Total", V5000) >>
    /\ Val(ev_modular) = Returned(<< >>)

\* what C10 says of one result: with the first numerator n and the first
\* denominator d, no exception; no flag when d is 0; otherwise a flag iff
\* n / d * 100 compares to the threshold 100 as the operator says, that is
\* iff n compares to d so
PercentageOutcome(result) ==
    LET n == Denotes(ev_text[FirstLine(ev_text,
                                       LabelOf(ev_rule.numerator_pattern))].val)
        d == Denotes(ev_text[FirstLine(ev_text,
                                       LabelOf(ev_rule.denominator_pattern))].val)
    IN  /\ result.exc = "none"
        /\ d = 0 => result.flags = << >>
        /\ d # 0 => (result.flags # << >> <=> Compare(n, ev_rule.operator, d))
        /\ Len(result.flags) <= 1

\* the rules and texts C10 speaks of: both patterns match and both first
\* matches parse
PercentageCase ==
    /\ ev_rule.type = CALCULATED_PERCENTAGE
    /\ ev_rule.numerator_pattern \in { "total:(#)", "loan:(#)" }
    /\ ev_rule.denominator_pattern \in { "total:(#)", "loan:(#)" }
    /\ ev_rule.threshold = Some(10000)
    /\ ev_rule.operator \in { ">", "<", ">=", "<=", "==" }
    /\ LinesOf(ev_text, LabelOf(ev_rule.numerator_pattern)) # {}
    /\ LinesOf(ev_text, LabelOf(ev_rule.denominator_pattern)) # {}
    /\ ev_text[FirstLine(ev_text, LabelOf(ev_rule.numerator_pattern))].val # VBad
    /\ ev_text[FirstLine(ev_text, LabelOf(ev_rule.denominator_pattern))].val # VBad

\* C10: a calculated_percentage rule whose denominator parses to 0 neither
\* raises nor flags, whatever the numerator, threshold and operator;
\* otherwise it flags iff numerator / denominator * 100 satisfies the
\* operator against the threshold, reading only the first match of each
\* pattern.  The legacy check does the same.
C10_PercentageZeroSafe ==
    /\ (ev_modular # None /\ PercentageCase) => PercentageOutcome(Val(ev_modular))
    /\ (ev_legacy # None /\ PercentageCase) => PercentageOutcome(Val(ev_legacy))

\* a zero denominator after a non-zero numerator has been evaluated and
\* produced neither an exception nor a flag
C10_Witness ==
    /\ ev_modular # None
    /\ PercentageCase
    /\ ev_text = << Item("Total", V5000), Item("LOAN", VZero) >>
    /\ ev_rule.numerator_pattern = "total:(#)"
    /\ ev_rule.denominator_pattern = "loan:(#)"
    /\ Val(ev_modular) = Returned(<< >>)

\* the lines of a text whose amount parses and compares to the threshold
\* 5000 as the operator of the rule says ('>' when the rule names none)
SatisfyingLines(rule, t) ==
    { k \in LinesOf(t, "Total") :
        /\ t[k].val # VBad
        /\ Compare(Denotes(t[k].val), OperatorOrDefault(rule.operator), 500000) }

\* a numeric_threshold or regex_amount entry with a capturing pattern, the
\* threshold 5000 and one of the five operators or none
AmountCase ==
    /\ ev_rule.type \in { NUMERIC_THRESHOLD, REGEX_AMOUNT }
    /\ ev_rule.pattern = "total:(#)"
    /\ ev_rule.threshold # None
    /\ ev_rule.operator \in { Missing, ">", "<", ">=", "<=", "==" }

\* C21: in numeric_threshold and regex_amount evaluation a match whose
\* captured group does not parse as a number is skipped and the rule goes
\* on: nothing is raised and the handler returns exactly one flag for every
\* match whose value satisfies the operator against the threshold, so a
\* satisfying match after an unparseable one still produces the flag.
C21_ParseFailureSkipped ==
    (ev_modular # None /\ AmountCase)
    => /\ Val(ev_modular).exc = "none"
       /\ Len(Val(ev_modular).flags)
            = Cardinality(SatisfyingLines(ev_rule, ev_text))
       /\ \A j \in 1..Len(Val(ev_modular).flags) :
             Val(ev_modular).flags[j].rule = ev_rule.name

\* a total that does not parse was followed by one over the threshold, and
\* the numeric_threshold rule returned the flag of the second
C21_Witness ==
    /\ ev_modular # None
    /\ ev_rule.type = NUMERIC_THRESHOLD
    /\ ev_rule.operator = ">"
    /\ ev_rule.threshold = Some(500000)
    /\ ev_text = << Item("Total", VBad), Item("Total", V5000_01) >>
    /\ Len(Val(ev_modular).flags) = 1
    /\ Val(ev_modular).flags[1].snippet
         = extract_snippet(ev_text, 2, 2)

\* the numeric_threshold entry with the pattern, threshold and operator of
\* a regex_amount entry
ThresholdTwin(rule) == [ rule EXCEPT !.type = NUMERIC_THRESHOLD ]

\* C22: a regex_amount rule and a numeric_threshold rule with the same
\* pattern, threshold and operator flag on exactly the same texts, for each
\* of the operators '>', '<', '>=', '<=', '==' and when the operator is
\* omitted, in the handlers of the service and in the legacy engine.
C22_AmountSameAsThreshold ==
    ( /\ ev_rule.type = REGEX_AMOUNT
      /\ ev_rule.threshold # None
      /\ ev_rule.operator \in { Missing, ">", "<", ">=", "<=", "==" } )
    => /\ ev_modular # None
          => ( Val(ev_modular).flags # << >>
               <=> process_rule(get_handler_for_rule(ThresholdTwin(ev_rule)),
                                ThresholdTwin(ev_rule), ev_text,
                                ev_context).flags # << >> )
       /\ ev_legacy # None
          => ( Val(ev_legacy).flags # << >>
               <=> apply_rule(ThresholdTwin(ev_rule), ev_text).flags # << >> )

(***************************************************************************)
(* Properties of the rule kinds in the orchestrators (SpecKinds).          *)
(***************************************************************************)
\* whether the rule at place p of the loop has a flag in the list, and
\* that flag
HasFlagOf(p) == positions[p] \in Range(origin)
FlagOf(p) == flags[CHOOSE k \in 1..Len(flags) : origin[k] = positions[p]]

\* whether a document has a loan line, which is what the pattern of the
\* absence rule looks for
HasLoanLine(t) == LinesOf(t, "LOAN") \cup LinesOf(t, "loan") # {}

\* the places of the loop that hold a regex_absence rule
AbsencePlaces == { p \in 1..Len(rules) : rules[p].type = REGEX_ABSENCE }

\* the absence rule by itself: its evaluator returns exactly one flag, with
\* the fixed snippet, when the document has no loan line and none when it
\* has one; and the rule has that flag in the list unless a rule of its
\* name was flagged before it
AbsenceFlagsIffAbsent ==
    pc = "returned" =>
      \A p \in AbsencePlaces :
         LET result == evaluate(entry, rules[p], text, user_context)
         IN  /\ result.exc = "none"
             /\ IF HasLoanLine(text) THEN result.flags = << >>
                ELSE /\ Len(result.flags) = 1
                     /\ result.flags[1].rule = rules[p].name
                     /\ result.flags[1].snippet = PatternNotFound
             /\ HasFlagOf(p) =>
                    ~HasLoanLine(text) /\ FlagOf(p).snippet = PatternNotFound
             /\ ( /\ ~HasLoanLine(text)
                  /\ \A q \in 1..(p - 1) :
                        rules[q].name = rules[p].name => ~Flagging(q) )
                => HasFlagOf(p)

\* C11 as stated: a regex_absence rule flags, once and with the snippet
\* 'Pattern not found in document', iff its pattern does not occur in the
\* text, and every rule of another kind has the flag it would have without
\* the absence rules: it is flagged iff its evaluator returns flags and no
\* earlier rule of its name, absence rules apart, does.
C11_AbsenceAffectsNoOtherRule ==
    /\ AbsenceFlagsIffAbsent
    /\ pc = "returned" =>
         \A p \in (1..Len(rules)) \ AbsencePlaces :
            HasFlagOf(p) <=>
               /\ Flagging(p)
               /\ \A q \in (1..(p - 1)) \ AbsencePlaces :
                      rules[q].name = rules[p].name => ~Flagging(q)

\* C11 amended: a regex_absence rule flags, once and with the snippet
\* 'Pattern not found in document', iff its pattern does not occur in the
\* text, and every rule whose name no absence rule bears has the flag it
\* would have without the absence rules: it is flagged, with the flag its
\* entry point keeps, iff its evaluator returns flags and no earlier rule
\* of its name does.
C11_AbsenceAffectsNoOtherName ==
    /\ AbsenceFlagsIffAbsent
    /\ pc = "returned" =>
         \A p \in (1..Len(rules)) \ AbsencePlaces :
            (\A a \in AbsencePlaces : rules[a].name # rules[p].name) =>
               /\ HasFlagOf(p) <=>
                     /\ Flagging(p)
                     /\ \A q \in 1..(p - 1) :
                            rules[q].name = rules[p].name => ~Flagging(q)
               /\ HasFlagOf(p) =>
                     FlagOf(p) = pick_flag(entry, evaluate(entry, rules[p], text,
                                                          user_context).flags)

\* analyze_text returned, for a document without a loan line, the flag of
\* the absence rule and after it the flag of a rule of another name
C11_Witness ==
    /\ pc = "returned"
    /\ entry = "analyze_text"
    /\ config.rules = << AbsenceFee, Deception >>
    /\ ~HasLoanLine(text)
    /\ Len(flags) = 2
    /\ flags[1].rule = "fee"
    /\ flags[1].snippet = PatternNotFound
    /\ flags[2].rule = "zero_closing_costs_deception"

\* the places of the loop that hold a context_comparison rule
ComparisonPlaces == { p \in 1..Len(rules) : rules[p].type = CONTEXT_COMPARISON }

\* C12: in an analysis without a user context (analyze_text without one,
\* check_text) every context_comparison rule yields zero flags, and every
\* rule of another kind has the flag it would have without the
\* context_comparison rules: it is flagged, with the first flag of its
\* evaluator, iff its evaluator returns flags and no earlier rule of its
\* name, context_comparison rules apart, does.
C12_NoContextNoComparisonFlags ==
    ( /\ entry \in { "analyze_text", "check_text" }
      /\ user_context = None
      /\ pc \in { "loop", "returned" } )
    => /\ \A p \in ComparisonPlaces :
             /\ evaluate(entry, rules[p], text, user_context) = Returned(<< >>)
             /\ ~HasFlagOf(p)
       /\ pc = "returned" =>
             \A p \in (1..Len(rules)) \ ComparisonPlaces :
                /\ HasFlagOf(p) <=>
                      /\ Flagging(p)
                      /\ \A q \in (1..(p - 1)) \ ComparisonPlaces :
                             rules[q].name = rules[p].name => ~Flagging(q)
                /\ HasFlagOf(p) =>
                      FlagOf(p) = Head(evaluate(entry, rules[p], text,
                                                user_context).flags)

\* check_text returned the flag of the presence rule "fee" and none of the
\* context_comparison rule "fee" before it, which flags the same document
\* when the expected price is supplied
C12_Witness ==
    /\ pc = "returned"
    /\ entry = "check_text"
    /\ user_context = None
    /\ config.rules = << PriceCheck, FeePresence >>
    /\ apply_rule_with_context(PriceCheck, text, ExpectedPrice).flags # << >>
    /\ origin = << 2 >>
    /\ Len(flags) = 1
    /\ flags[1] = Head(legacy_check_regex_presence(FeePresence, text).flags)


\* a message of the context-enhanced form
EnhancedMessage(message) ==
    \E marker \in { BrokenPromise, CaptiveLender, RepresentationFraud } :
        Contains(message, marker)

\* the candidate flags of the rule at place p of the loop, and the places
\* in that list of the context-enhanced candidates
Candidates(p) == evaluate(entry, rules[p], text, user_context).flags
EnhancedCandidates(p) ==
    { j \in 1..Len(Candidates(p)) : EnhancedMessage(Candidates(p)[j].message) }

\* C19: in an analysis with a user context, the one flag kept for a rule
\* is its first context-enhanced candidate, wherever it stands among the
\* candidates, when it has one, and its first candidate when it has none.
C19_EnhancedFlagPreferred ==
    (pc \in { "loop", "returned" } /\ user_context # None) =>
        \A p \in 1..Len(rules) :
           HasFlagOf(p) =>
              IF EnhancedCandidates(p) # {}
              THEN \E j \in EnhancedCandidates(p) :
                      /\ \A h \in EnhancedCandidates(p) : j <= h
                      /\ FlagOf(p) = Candidates(p)[j]
              ELSE FlagOf(p) = Candidates(p)[1]

\* check_text_with_context kept, for the rule whose candidates are a
\* standard flag followed by a broken-promise flag, the second
C19_Witness ==
    /\ pc = "returned"
    /\ entry = "check_text_with_context"
    /\ user_context = Some(PromisedZero)
    /\ config.rules = << Deception >>
    /\ Len(Candidates(1)) = 2
    /\ EnhancedCandidates(1) = { 2 }
    /\ flags = << Candidates(1)[2] >>


\* the places of the rule file whose entry fails the schema: its type is
\* not a rule type, or it is not a mapping
BadEntries == { k \in 1..Len(config.rules) : ~from_dict_ok(config.rules[k]) }

\* C20: a rule of an unrecognized kind, or failing its schema, produces no
\* flags and is never fatal: no call raises because of it, no flag comes
\* from it, and every other rule has the flag it would have without it: it
\* is flagged iff its evaluator returns flags and no earlier rule of its
\* name does.
C20_BadRuleSkipped ==
    /\ pc # "raised"
    /\ \A k \in 1..Len(origin) : origin[k] \notin BadEntries
    /\ pc = "returned" =>
         \A p \in 1..Len(rules) :
            positions[p] \notin BadEntries =>
               ( HasFlagOf(p) <=>
                    /\ Flagging(p)
                    /\ \A q \in 1..(p - 1) :
                          ( /\ positions[q] \notin BadEntries
                            /\ rules[q].name = rules[p].name ) => ~Flagging(q) )

\* whether an earlier rule of the name of the rule at place p of the loop
\* has its flag in the list
EarlierFlag(p) ==
    \E q \in 1..(p - 1) :
       rules[q].name = rules[p].name /\ positions[q] \in Range(origin)

\* C26: at every step of the orchestrator loop the flagged-name set is the
\* set of the rule names of the flags collected so far; a rule the loop has
\* passed was skipped only if an earlier rule of its name has a flag in the
\* list, and when no earlier rule of its name has one it was evaluated and,
\* if its evaluator returns flags, the list holds its flag.
C26_FlaggedNamesAreFlagNames ==
    pc \in { "loop", "returned" }
    => /\ flagged_rules = RuleNames(flags)
       /\ \A p \in 1..(i - 1) :
             /\ positions[p] \notin dispatched /\ rules[p].type \in RuleType
                => EarlierFlag(p)
             /\ ~EarlierFlag(p)
                => /\ rules[p].type \in RuleType => positions[p] \in dispatched
                   /\ Flagging(p) => positions[p] \in Range(origin)

\* analyze_text returned: the absence rule "fee" was evaluated and produced
\* no flag, and the presence rule "fee" after it was evaluated and
\* contributed the flag of that name
C26_Witness ==
    /\ pc = "returned"
    /\ entry = "analyze_text"
    /\ rules = << AbsenceFee, FeePresence >>
    /\ ~Flagging(1)
    /\ dispatched = { 1, 2 }
    /\ origin = << 2 >>
    /\ flagged_rules = { "fee" }

(***************************************************************************)
(* Properties of the handlers of the rule kinds (SpecHandlers).            *)
(***************************************************************************)
\* the whole dollars a printed amount denotes
DollarsOf(v) ==
    CASE v = V420000 -> 420000
      [] v = V421000 -> 421000
      [] v = V380000 -> 380000
      [] v = V379000 -> 379000
      [] v = V400000 -> 400000

\* the expected value the user supplied for a comparison type, in dollars,
\* as a sequence of at most one element
ExpectedDollars(comparison_type, context) ==
    LET expected == IF comparison_type = "purchase_price"
                    THEN context.expected_purchase_price
                    ELSE context.expected_loan_amount
    IN  IF expected = None THEN None ELSE Some(Val(expected) \div 100)

\* a purchase_price or loan_amount comparison whose expected value is
\* supplied and whose pattern extracts the amount of the document
ComparisonCase ==
    /\ ev_rule.type = CONTEXT_COMPARISON
    /\ ev_rule.comparison_type \in { "purchase_price", "loan_amount" }
    /\ ev_context # None
    /\ ExpectedDollars(ev_rule.comparison_type, Val(ev_context)) # None
    /\ Len(ev_text) = 1
    /\ ev_text[1].label = PatLabel(ev_rule.pattern)

\* |actual - E| / E * 100 > t, for the amount of the document, the
\* expected value E and the tolerance t of the rule (default 5)
OverTolerance ==
    LET E == Val(ExpectedDollars(ev_rule.comparison_type, Val(ev_context)))
        t == IF ev_rule.tolerance_percentage = None THEN 5
             ELSE Val(ev_rule.tolerance_percentage) \div 100
    IN  Abs(DollarsOf(ev_text[1].val) - E) * 100 > t * E

\* the result of an evaluator is one flag when the difference is over the
\* tolerance and no flag when it is not
ToleranceBoundary(result) ==
    (ComparisonCase /\ result # None) =>
        /\ Val(result).exc = "none"
        /\ Len(Val(result).flags) = (IF OverTolerance THEN 1 ELSE 0)

\* C13: a context_comparison rule with comparison_type purchase_price or
\* loan_amount, a supplied expected value E > 0 and tolerance_percentage t
\* (default 5.0) flags iff |actual - E| / E * 100 > t, strictly: with
\* E = 400000 and t = 5, 420000 and 380000 do not flag, 421000 and 379000
\* flag; in the handler of the rule engine service and in the legacy
\* engine.
C13_ToleranceBoundary ==
    /\ ToleranceBoundary(ev_modular)
    /\ ToleranceBoundary(ev_legacy)

\* the names that share a keyword with 'ABC BUILDER CORPORATION', and the
\* names that are that name once stripped and raised to upper case
SharesKeyword(v) == v \in { NameAbcMortgage, NameAbcBuilder, NameAbcBuilderLc }
SameName(v) == v \in { NameAbcBuilder, NameAbcBuilderLc }

\* the values the secondary patterns extract from a document: the names on
\* its first lender line and on its first insurer line
SecondaryValues(t) ==
    { t[FirstLine(t, l)].val :
          l \in { m \in { "lender", "insurer" } : LinesOf(t, m) # {} } }

\* a cross_reference_pattern rule configured with a primary_pattern and
\* secondary_patterns, on a document that names the seller
CrossReferenceCase ==
    /\ ev_rule.type = CROSS_REFERENCE_PATTERN
    /\ ev_rule.reference_pattern = Missing
    /\ LinesOf(ev_text, "seller") # {}
    /\ ev_text[FirstLine(ev_text, "seller")].val = NameAbcBuilder

\* the result of an evaluator is one flag when a secondary value matches
\* the primary value (by a shared keyword, or by equality when fuzzy_match
\* is false) and no flag otherwise
CrossReferenceOutcome(result) ==
    (CrossReferenceCase /\ result # None) =>
        /\ Val(result).exc = "none"
        /\ Len(Val(result).flags) =
              (IF \E v \in SecondaryValues(ev_text) :
                      IF ev_rule.fuzzy_match = "False" THEN SameName(v)
                      ELSE SharesKeyword(v)
               THEN 1 ELSE 0)

\* C14: a cross_reference_pattern rule with a primary_pattern and a list
\* of secondary_patterns produces, under fuzzy matching, exactly one flag
\* when a matched secondary value contains a keyword of the primary value
\* ('ABC BUILDER CORPORATION' against 'ABC MORTGAGE SOLUTIONS') and no flag
\* when none does ('UNRELATED BANK'); with fuzzy_match false it flags only
\* when a secondary value equals the primary value; in the handler of the
\* rule engine service and in the legacy engine.
C14_CrossReferenceFuzzy ==
    /\ CrossReferenceOutcome(ev_modular)
    /\ CrossReferenceOutcome(ev_legacy)

\* whether a document satisfies a sub-condition: a first total line over
\* 5000, a loan line (whose amount is over the default threshold 0), no
\* price line
ConditionSatisfied(condition, t) ==
    CASE condition = NumericTotal ->
             /\ LinesOf(t, "Total") # {}
             /\ t[FirstLine(t, "Total")].val = V5000_01
      [] condition = PresenceLoan -> LinesOf(t, "LOAN") # {}
      [] condition = NumericLoan  -> LinesOf(t, "LOAN") # {}
      [] condition = AbsencePrice -> LinesOf(t, "price") = {}

\* a compound_rule with sub-conditions
CompoundCase ==
    /\ ev_rule.type = COMPOUND_RULE
    /\ ev_rule.conditions # << >>

\* the result of an evaluator is one flag when the sub-conditions are
\* satisfied as the logic of the rule requires (AND, the default: all of
\* them; OR: one of them) and no flag otherwise
CompoundOutcome(result) ==
    (CompoundCase /\ result # None) =>
        LET satisfied == { k \in 1..Len(ev_rule.conditions) :
                              ConditionSatisfied(ev_rule.conditions[k], ev_text) }
            met == IF ev_rule.logic \in { Missing, "AND" }
                   THEN satisfied = 1..Len(ev_rule.conditions)
                   ELSE satisfied # {}
        IN  /\ Val(result).exc = "none"
            /\ Len(Val(result).flags) = (IF met THEN 1 ELSE 0)

\* C17: in a compound_rule every sub-condition is evaluated, a
\* numeric_threshold sub-condition without a match counting as not
\* satisfied; with logic AND the rule flags iff all sub-conditions are
\* satisfied, with logic OR iff at least one is, and a successful rule
\* emits exactly one flag; in the handler of the rule engine service and
\* in the legacy engine.
C17_CompoundLogic ==
    /\ CompoundOutcome(ev_modular)
    /\ CompoundOutcome(ev_legacy)

\* zero closing costs were promised and the document has one closing-costs
\* line, whose amount parses
PromiseCase ==
    /\ ev_rule.name = "zero_closing_costs_deception"
    /\ ev_context = Some(PromisedZero)
    /\ Len(ev_text) = 1
    /\ ev_text[1].label = "costs"
    /\ ev_text[1].val \in { VZero, V100, V100_01, V500, V500_01 }

\* the result of an evaluator is one flag when the closing costs are over
\* 500 (of the amounts of the documents, 500.01 only) and no flag otherwise
FloorOutcome(result) ==
    (PromiseCase /\ result # None) =>
        /\ Val(result).exc = "none"
        /\ Len(Val(result).flags) = (IF ev_text[1].val = V500_01 THEN 1 ELSE 0)

\* C18: when zero closing costs were promised, the promised-zero-closing-
\* costs check flags iff the closing costs of the document exceed 500 (500
\* or less does not flag, more than 500 flags), whatever the percentage
\* tolerance of the rule: the broken_promise rule in the handler of the
\* rule engine service, and the rule the legacy engine knows by its name.
C18_ZeroClosingCostsFloor ==
    /\ ev_rule.type = CONTEXT_COMPARISON => FloorOutcome(ev_modular)
    /\ ev_rule.type # CONTEXT_COMPARISON => FloorOutcome(ev_legacy)

(***************************************************************************)
(* Properties of the guards of the handlers (SpecGuards).                  *)
(***************************************************************************)
\* whether the pattern a rule of its kind requires is missing or empty: the
\* pattern key, the numerator pattern of a calculated percentage, the
\* primary pattern of a cross reference, the pattern of a sub-condition
PatternMissing(rule) ==
    CASE rule.type = CALCULATED_PERCENTAGE -> NotStr(rule.numerator_pattern)
      [] rule.type = CROSS_REFERENCE_PATTERN -> NotStr(rule.primary_pattern)
      [] rule.type = COMPOUND_RULE ->
             \E k \in 1..Len(rule.conditions) : NotStr(rule.conditions[k].pattern)
      [] OTHER -> NotStr(rule.pattern)

\* C23: a rule of any kind whose required pattern field is missing or empty
\* produces no flags and raises no error, in the handlers and in the legacy
\* checks, context_comparison rules evaluated with a context and
\* cross_reference_pattern rules included.
C23_MissingPatternNoFlags ==
    PatternMissing(ev_rule)
    => /\ ev_modular # None => Val(ev_modular) = Returned(<< >>)
       /\ ev_legacy # None => Val(ev_legacy) = Returned(<< >>)

\* the expected value a price or loan-amount comparison reads from the
\* context: None when the context or the field is missing
ExpectedOf(rule, context) ==
    IF context = None THEN None
    ELSE IF rule.comparison_type \in { "price_mismatch", "purchase_price" }
    THEN Val(context).expected_purchase_price
    ELSE Val(context).expected_loan_amount

\* C28: a context_comparison price or loan-amount check never divides by
\* zero; when the expected value of the context is missing or 0, the
\* handler and the legacy check return no flag and raise nothing, whatever
\* the document and the pattern are.
C28_NoDivisionByZero ==
    ( /\ ev_rule.type = CONTEXT_COMPARISON
      /\ ev_rule.comparison_type \in { "price_mismatch", "loan_amount_mismatch",
                                       "purchase_price", "loan_amount" } )
    => /\ ev_modular # None => Val(ev_modular).exc # "ZeroDivisionError"
       /\ ev_legacy # None => Val(ev_legacy).exc # "ZeroDivisionError"
       /\ ( \/ ExpectedOf(ev_rule, ev_context) = None
            \/ Val(ExpectedOf(ev_rule, ev_context)) = 0 )
          => /\ ev_modular # None => Val(ev_modular) = Returned(<< >>)
             /\ ev_legacy # None => Val(ev_legacy) = Returned(<< >>)

\* both engines returned nothing for a price comparison against the
\* expected price 0 on a document whose price is 400000
C28_Witness ==
    /\ ev_rule.type = CONTEXT_COMPARISON
    /\ ev_rule.comparison_type \in { "price_mismatch", "purchase_price" }
    /\ ev_rule.pattern = "price:(#)"
    /\ ev_context = Some(ExpectedZero)
    /\ ev_text = << Item("price", V400000) >>
    /\ ev_modular = Some(Returned(<< >>))
    /\ ev_legacy = Some(Returned(<< >>))

(***************************************************************************)
(* Properties of calls that run at the same time (SpecCalls).              *)
(***************************************************************************)
RECURSIVE alone_from(_, _, _, _, _, _, _)
\* the rest of the loop after the iteration on rule k gave `step`
alone_next(e, rule_list, t, context, k, fs, flagged, step) ==
    IF step.raised THEN [ raised |-> TRUE, flags |-> fs ]
    ELSE IF step.flag = None
    THEN alone_from(e, rule_list, t, context, k + 1, fs, flagged)
    ELSE alone_from(e, rule_list, t, context, k + 1,
                    Append(fs, Val(step.flag)),
                    mark_flagged(flagged, rule_list[k].name))

\* the loop of an entry point run without interruption from rule k on, with
\* the flags fs and the flagged names collected so far
alone_from(e, rule_list, t, context, k, fs, flagged) ==
    IF k > Len(rule_list) THEN [ raised |-> FALSE, flags |-> fs ]
    ELSE alone_next(e, rule_list, t, context, k, fs, flagged,
                    loop_iteration(e, rule_list[k], t, context, flagged))

\* what a call returns when no other call runs on the engine
RunAlone(e, cfg, t, context) ==
    IF e \in Modular /\ load_rules_raises(cfg)
    THEN [ raised |-> TRUE, flags |-> << >> ]
    ELSE alone_from(e, call_rules(e, cfg), t, context, 1, << >>, {})

\* C24: an analyze call leaves the rule set and the supplied UserContext
\* unchanged: no step of any call changes the rule file or the rules, the
\* text and the context a running call was given, which stay the rules of
\* the file; and the flag list a call returned is not changed by the steps
\* of other or later calls.
C24_AnalyzeLeavesInputsUnchanged ==
    [][ /\ config' = config
        /\ \A c \in CallIds :
              calls[c].pc = "loop"
              => /\ calls'[c].rules = calls[c].rules
                 /\ calls'[c].user_context = calls[c].user_context
                 /\ calls'[c].text = calls[c].text
                 /\ calls[c].rules = call_rules(calls[c].entry, config)
        /\ \A c \in CallIds :
              (calls[c].pc = "returned" /\ calls'[c].pc = "returned")
              => calls'[calls[c].result].flags = calls[calls[c].result].flags
      ]_vars

\* a call with a user context returned a flag, and another call, on another
\* text, has run to its end after it and returned none
C24_Witness ==
    /\ calls[1].pc = "returned"
    /\ calls[1].user_context # None
    /\ calls[calls[1].result].flags # << >>
    /\ calls[2].pc = "returned"
    /\ calls[2].text # calls[1].text
    /\ calls[calls[2].result].flags = << >>

\* C25: two analyze calls that run at the same time on one engine, their
\* loop iterations interleaved in any way, each return the flag list the
\* call returns when run alone (and raise only if it raises alone): a rule
\* flagged in one call is not skipped in the other.
C25_ConcurrentCallsIndependent ==
    \A c \in CallIds :
       LET me    == calls[c]
           alone == RunAlone(me.entry, config, me.text, me.user_context)
       IN  /\ me.pc = "returned"
              => ~alone.raised /\ calls[me.result].flags = alone.flags
           /\ me.pc = "raised" => alone.raised

\* while call 1 is inside its loop with the rule "fee" flagged, call 2 has
\* run on the same text and returned its own flag of "fee"
C25_Witness ==
    /\ calls[1].pc = "loop"
    /\ calls[1].i = 2
    /\ "fee" \in calls[1].flagged_rules
    /\ calls[2].pc = "returned"
    /\ calls[2].text = calls[1].text
    /\ Len(calls[calls[2].result].flags) = 1
    /\ calls[calls[2].result].flags[1].rule = "fee"

(***************************************************************************)
(* main.py and services/analysis/validation_service.py: the upload, get    *)
(* and delete endpoints over the in-memory report store.  A report id is   *)
(* the record [len, blank, n] of a string: its length, whether it is empty *)
(* or blank, and, for the string of a UUID, which call of uuid4 gave it    *)
(* (0 for a UUID the application never issued).  A response is the record  *)
(* of the operation, the id it concerns and the HTTP status.               *)
(***************************************************************************)
\* Settings.max_file_size
MaxFileSize == 52428800

\* the uploads that pass validation in one behaviour
MaxUploads == 2

\* filename.lower().endswith('.pdf')
EndsWithPdf(filename) ==
    LET lowered == Lower(filename)
        n == Len(lowered)
    IN  n >= 4 /\ SubSeq(lowered, n - 3, n) = << ".", "p", "d", "f" >>

\* ValidationService.validate_file_upload: the list of errors; the result
\* is valid when it is empty
validate_file_upload(filename, file_size, max_size) ==
    (IF file_size > max_size THEN << "File size exceeds maximum" >> ELSE << >>)
    \o (IF ~EndsWithPdf(filename) THEN << "Only PDF files are allowed" >> ELSE << >>)
    \o (IF filename = << >> \/ \A k \in 1..Len(filename) : filename[k] = " "
        THEN << "Filename cannot be empty" >> ELSE << >>)

\* ValidationService.validate_report_id: the list of errors
validate_report_id(report_id) ==
    (IF report_id.blank THEN << "Report ID cannot be empty" >> ELSE << >>)
    \o (IF report_id.len < 10 THEN << "Report ID appears to be invalid" >> ELSE << >>)

\* str(uuid.uuid4()) for the k-th call of uuid4: 36 characters, and no two
\* calls give the same string
UuidStr(k) == [ len |-> 36, blank |-> FALSE, n |-> k ]

\* report_id in reports_store
in_store(store, report_id) == \E r \in store : r.id = report_id

\* reports_store[report_id] = report.to_dict()
store_put(store, report) == { r \in store : r.id # report.id } \cup { report }

\* del reports_store[report_id] altered: the entry stays
store_del_Kept(store, report_id) == store

\* del reports_store[report_id]
store_del(store, report_id) == { r \in store : r.id # report_id }

\* HTTPException(status_code=...) and the responses of the endpoints
Response(op, report_id, status) ==
    [ op |-> op, id |-> report_id, status |-> status ]

\* the end of upload_pdf: the report of the flags, or the 500 of a
\* ReportAnalytics that raised
report_outcome(report_id, report_flags, made) ==
    IF made.exc # "none" THEN [ status |-> 500, report |-> None ]
    ELSE [ status |-> 200,
           report |-> Some([ id |-> report_id, status |-> "completed",
                             flags |-> report_flags,
                             analytics |-> Val(made.fields) ]) ]

\* upload_pdf from the analysis on: 500 when analyze_text raised, else the
\* scoring of its flags
analysis_outcome(report_id, analysis, service) ==
    IF analysis.raised THEN [ status |-> 500, report |-> None ]
    ELSE report_outcome(report_id, analysis.flags,
                        create_analytics(service, analysis.flags))

\* the part of upload_pdf after `await file.read()`: the outcome for a
\* document and a context string under the rule file and the scoring
\* service of the application
process_upload(report_id, doc, context, cfg, service) ==
    IF ~doc.readable THEN [ status |-> 500, report |-> None ]
    ELSE IF doc.text = << >> THEN [ status |-> 400, report |-> None ]
    ELSE analysis_outcome(report_id,
                          RunAlone("analyze_text", cfg, doc.text,
                                   IF context = "valid"
                                   THEN Some(MismatchContext) ELSE None),
                          service)

(***************************************************************************)
(* SpecStore: upload, get and delete requests in any order.  An upload is  *)
(* two steps, before and after its `await file.read()`, so that other      *)
(* requests are served in between.                                         *)
(***************************************************************************)
\* the rule files of the application: one that loads, one that does not
StoreConfigs ==
    { [ exists |-> TRUE, rules |-> << FeeThreshold, FeePresence >> ],
      [ exists |-> TRUE, rules |-> << FeePresence, NotAMapping >> ] }

\* Settings.max_forensic_score: the default, and a value under which an
\* empty flag list scores below 0
StoreMaxScores == { DefaultMaxScore, 0 - 10 }

\* uploaded files: names and sizes
Filenames ==
    { << "a", ".", "P", "D", "F" >>, << "a", ".", "t", "x", "t" >>, << >> }
FileSizes == { 1024, MaxFileSize + 1 }

\* documents: one the parser fails on, one with no text, one the rules
\* flag, one they do not
Documents ==
    { [ readable |-> FALSE, text |-> << >> ],
      [ readable |-> TRUE, text |-> << >> ],
      [ readable |-> TRUE, text |-> << Item("Total", V5000_01) >> ],
      [ readable |-> TRUE, text |-> << Item("price", V5000) >> ] }

\* the context form field: absent, not parseable, parseable
ContextFields == { "absent", "invalid", "valid" }

\* the ids of requests: every issued id, a UUID never issued, a short
\* string, a blank string
RequestIds ==
    { UuidStr(k) : k \in 0..issued }
    \cup { [ len |-> 3, blank |-> FALSE, n |-> 0 ],
           [ len |-> 12, blank |-> TRUE, n |-> 0 ] }

InitStore ==
    /\ config \in StoreConfigs
    /\ \E max_score \in StoreMaxScores :
          /\ service_args = [ max_score |-> max_score,
                              severity_weights |-> Some(DefaultWeights) ]
          /\ scoring_service = ScoringService(max_score, Some(DefaultWeights))
    /\ score_flags = << >>
    /\ forensic_score = None
    /\ legacy_score = None
    /\ pc = "off"
    /\ entry = ""
    /\ text = << >>
    /\ user_context = None
    /\ rules = << >>
    /\ i = 0
    /\ flags = << >>
    /\ flagged_rules = {}
    /\ positions = << >>
    /\ dispatched = {}
    /\ origin = << >>
    /\ memo = None
    /\ IdleEval /\ IdleFlag /\ IdleApp

\* upload_pdf up to `await file.read()`: validation, then the report id
UploadReceive ==
    \E filename \in Filenames, file_size \in FileSizes :
       IF validate_file_upload(filename, file_size, MaxFileSize) # << >>
       THEN /\ response' = Some(Response("upload", None, 400))
            /\ UNCHANGED << reports_store, issued, uploads, deleted >>
       ELSE /\ issued < MaxUploads
            /\ issued' = issued + 1
            /\ \E doc \in Documents, context \in ContextFields :
                  uploads' = Append(uploads, [ id |-> UuidStr(issued + 1),
                                              doc |-> doc, context |-> context,
                                              stage |-> "reading" ])
            /\ response' = None
            /\ UNCHANGED << reports_store, deleted >>

\* upload_pdf from the text extraction on, for the upload u
UploadProcess(u) ==
    /\ uploads[u].stage = "reading"
    /\ \E outcome \in { process_upload(uploads[u].id, uploads[u].doc,
                                         uploads[u].context, config,
                                         scoring_service) } :
           /\ reports_store' =
                  IF outcome.report = None THEN reports_store
                  ELSE store_put(reports_store, Val(outcome.report))
           /\ uploads' = [ uploads EXCEPT ![u].stage =
                               IF outcome.report = None THEN "failed"
                               ELSE "completed" ]
           /\ response' = Some(Response("upload", Some(uploads[u].id),
                                        outcome.status))
    /\ UNCHANGED << issued, deleted >>

\* get_report
GetReport(report_id) ==
    /\ response' =
           Some(Response("get", Some(report_id),
                         IF validate_report_id(report_id) # << >> THEN 400
                         ELSE IF ~in_store(reports_store, report_id) THEN 404
                         ELSE 200))
    /\ UNCHANGED << reports_store, issued, uploads, deleted >>

\* delete_report
DeleteReport(report_id) ==
    /\ IF validate_report_id(report_id) # << >>
       THEN /\ response' = Some(Response("delete", Some(report_id), 400))
            /\ UNCHANGED << reports_store, deleted >>
       ELSE IF ~in_store(reports_store, report_id)
       THEN /\ response' = Some(Response("delete", Some(report_id), 404))
            /\ UNCHANGED << reports_store, deleted >>
       ELSE /\ reports_store' = store_del(reports_store, report_id)
            /\ deleted' = deleted \cup { report_id }
            /\ response' = Some(Response("delete", Some(report_id), 200))
    /\ UNCHANGED << issued, uploads >>

NextStore ==
    \/ UploadReceive /\ UNCHANGED << orchVars, evalVars, scoreVars, flagVars,
                                     calls, analytics, report_analytics >>
    \/ \E u \in 1..Len(uploads) :
          UploadProcess(u) /\ UNCHANGED << orchVars, evalVars, scoreVars, flagVars,
                                           calls, analytics, report_analytics >>
    \/ \E report_id \in RequestIds :
          GetReport(report_id) /\ UNCHANGED << orchVars, evalVars, scoreVars,
                                               flagVars, calls, analytics,
                                               report_analytics >>
    \/ \E report_id \in RequestIds :
          DeleteReport(report_id) /\ UNCHANGED << orchVars, evalVars, scoreVars,
                                                  flagVars, calls, analytics,
                                                  report_analytics >>

SpecStore == InitStore /\ [][NextStore]_vars

(***************************************************************************)
(* Properties of the report store (SpecStore).                             *)
(***************************************************************************)
\* every stored report has the status 'completed' and is the report of an
\* upload that went through extraction, analysis and scoring; no deleted id
\* is in the store
StoreSound ==
    /\ \A r \in reports_store :
          /\ r.status = "completed"
          /\ \E u \in 1..Len(uploads) :
                /\ uploads[u].id = r.id
                /\ uploads[u].stage = "completed"
                /\ process_upload(r.id, uploads[u].doc, uploads[u].context,
                                  config, scoring_service)
                       = [ status |-> 200, report |-> Some(r) ]
    /\ \A r1, r2 \in reports_store : r1.id = r2.id => r1 = r2
    /\ \A report_id \in deleted : ~in_store(reports_store, report_id)

\* C30: over any sequence of upload, get and delete requests, the store
\* holds a report id only if its upload completed analysis and scoring
\* (stored with the status 'completed'); an upload that fails at validation,
\* text extraction, analysis or scoring leaves the store unchanged; and
\* after a successful delete of an id every later get or delete of that id
\* returns 404 and leaves the store unchanged.
C30_StoreHoldsCompletedUploads ==
    /\ []StoreSound
    /\ [][ /\ ( /\ response' # None
                /\ Val(response').op = "upload"
                /\ Val(response').status # 200 )
              => reports_store' = reports_store
           /\ ( /\ response' # None
                /\ Val(response').op \in { "get", "delete" }
                /\ Val(Val(response').id) \in deleted )
              => /\ Val(response').status = 404
                 /\ reports_store' = reports_store
         ]_vars

\* the first upload was stored and deleted, a later get of its id was
\* answered 404, and the store holds the report of the second upload only
C30_Witness ==
    /\ deleted = { UuidStr(1) }
    /\ response = Some(Response("get", Some(UuidStr(1)), 404))
    /\ Len(uploads) = 2
    /\ uploads[1].stage = "completed"
    /\ uploads[2].stage = "completed"
    /\ \A r \in reports_store : r.id = UuidStr(2) /\ r.status = "completed"
    /\ reports_store # {}

=============================================================================
